---- MODULE Spec2Model ----
(***************************************************************************)
(* A model of the Agent Execution Engine of giano-codex-agent:             *)
(*   - AgentEngine (src/agent/engine.ts): run, continue, reactLoop,        *)
(*     executeToolsParallel;                                               *)
(*   - ThreadManager (src/agent/thread.ts): addMessage and its trim,       *)
(*     updateStatus, addTokenUsage, save and load;                         *)
(*   - the /cancel and /resume handlers (src/bot/handlers/agent.ts);       *)
(*   - the safety validator (src/utils/safety.ts) and exec_command         *)
(*     (src/tools/exec.ts).                                                *)
(* Spec, SpecDispatch and SpecCancel are the engine on one session;        *)
(* SpecStore is the persistence of a session; SpecCommand and SpecPath     *)
(* apply the validator to every command and path of a small vocabulary.    *)
(***************************************************************************)
EXTENDS Integers, Sequences, FiniteSets, TLC

\* ------------------------------------------------------------------ bounds
\* config.maxHistoryMessages (default 50), taken small so that trims happen.
maxHistoryMessages == 4
\* The largest number of tool calls the completion service puts in one response.
MaxBatch == 2
\* How many run / continue calls one behaviour makes.
MaxRuns == 1
\* How many mutating operations of ThreadManager one behaviour begins.
MaxStoreOps == 3
\* The longest command, in words, and the longest path, in segments.
MaxCommandWords == 3
MaxPathSegments == 3
\* How many approval requests one behaviour creates, and the last millisecond
\* of its clock.
MaxRequests == 2
MaxClock == 1
\* The length up to which the log of the session of SpecHandlers is counted.
MaxLogLen == 4
\* The longest tool name and the longest policy pattern, in characters.
MaxNameLen == 2
MaxPatternLen == 2
\* The largest id of a tool call given to ToolRegistry.execute.
MaxCallId == 2
\* The largest number of branches of a union schema.
MaxBranches == 3
\* The most sessions the ThreadManager creates.
MaxSessions == 2
\* The most ThreadManager calls on the sessions.
MaxSessionOps == 4
\* The most process restarts of the ThreadManager.
MaxBoots == 1
\* The largest timeout a call of exec_command gives, in units of ten seconds;
\* a command that takes longer than that never ends by itself.
MaxTimeout == 5
\* The most sockets the CustomWebSocketManager opens, and the most reconnect
\* timers that fire.
MaxSockets == 3

\* -------------------------------------------------------- program constants
MAX_ITERATIONS == 15
\* The 30000 ms of exec_command, in units of ten seconds.
DefaultTimeout == 3
MAX_CONSECUTIVE_ERRORS == 3

\* -------------------------------------------------------------------- state
VARIABLES
  threadExists,       \* ThreadManager.threads holds the session of the chat
  messages,           \* Thread.messages
  status,             \* Thread.status
  pc,                 \* where the engine is: idle, top, llm, tools, exit
  entry,              \* the function that entered the loop: run or continue
  iteration,          \* reactLoop: iteration
  consecutiveErrors,  \* reactLoop: consecutiveErrors
  lastOutput,         \* reactLoop: lastOutput
  batch,              \* message.tool_calls of the current response
  toolState,          \* per call of the batch: new, exec, ok, err
  completed,          \* the calls of the batch in the order their tasks ended
  outcome,            \* what the last run / continue gave its caller
  runs,               \* run / continue calls made so far
  requested,          \* ids of the calls of the assistant message saved last
  toolMsgs,           \* toolCallId of the tool messages added since
  cancel,             \* /cancel during this loop: none, asked, passed (a loop
                      \* head was passed since)
  emitted             \* how often the last run / continue emitted turn.started,
                      \* turn.completed and error

\* ThreadManager's persistence of one session (SpecStore).
VARIABLES
  sMem,     \* the Thread object of ThreadManager.threads, or Lost
  sDisk,    \* the content of the session's JSON file, or Corrupt
  sWrite,   \* per caller: the save() its operation is waiting for
  sOps,     \* mutating operations begun so far
  sLast,    \* the state produced by the last mutation that returned
  sUp       \* FALSE once the process was killed and restarted

storeVars == <<sMem, sDisk, sWrite, sOps, sLast, sUp>>

\* The safety validator applied to one command (SpecCommand).
VARIABLES
  command,     \* the command text, as its words
  cmdPolicy,   \* the sandbox policy
  validation,  \* what validateCommand returned
  execResult   \* what execCommandHandler did

cmdVars == <<command, cmdPolicy, validation, execResult>>

\* The safety validator applied to one path (SpecPath).
VARIABLES
  filePath,    \* the requested path
  pathPolicy,  \* the sandbox policy
  pathResult,  \* what validatePath returned
  fileTool,    \* the file tool called with the path
  touched      \* what the file tool did: none, touched, refused

pathVars == <<filePath, pathPolicy, pathResult, fileTool, touched>>

\* ApprovalManager (SpecApproval).
VARIABLES
  apPolicy,           \* config.approvalPolicy
  now,                \* Date.now(), in milliseconds
  reqs,               \* the ApprovalRequest objects, in the order of creation
  pendingApprovals,   \* id -> the request held under it, 0 for none
  approvalCallbacks,  \* id -> the request whose callback is held, 0 for none
  dispatched          \* the risky tool call the loop dispatched, and its effect

approvalVars == <<apPolicy, now, reqs, pendingApprovals, approvalCallbacks,
                  dispatched>>

\* The handlers of two updates of one chat, each with its own call of the
\* engine (SpecHandlers).
VARIABLES
  hpc,       \* per handler: idle, checked (handleResume after its status
             \* test), top, llm (inside reactLoop)
  hentry,    \* per handler: the engine function it called, run or continue
  tStatus,   \* Thread.status of the session of the chat
  tLen       \* the number of messages of its log, up to MaxLogLen

handlerVars == <<hpc, hentry, tStatus, tLen>>

\* The tool-policy matcher applied to one tool name (SpecMatcher).
VARIABLES
  mPolicy,    \* the ToolPolicy: its allow and its deny patterns
  mName,      \* the tool name
  mAccepted   \* what the matcher returned: none yet, yes, no

matchVars == <<mPolicy, mName, mAccepted>>

\* ToolRegistry (SpecRegistry).
VARIABLES
  registered,   \* the names of ToolRegistry.tools
  toolPolicy,   \* ToolRegistry.policy, isSet FALSE while it is undefined
  schemaSet,    \* the names of the tools last given to the completion service
  toolSummary,  \* the tool names listed in the session's system message
  regCall,      \* the last call given to ToolRegistry.execute, its cause of
                \* failure if it has one
  regResult     \* what ToolRegistry.execute did with it

registryVars ==
  <<registered, toolPolicy, schemaSet, toolSummary, regCall, regResult>>

\* normalizeToolParameters applied to one parameter schema (SpecSchema).
VARIABLES
  schema,      \* the parameters of a tool definition
  normalizedSchema   \* what normalizeToolParameters returned

schemaVars == <<schema, normalizedSchema>>

\* The git tools applied to one call (SpecGit).
VARIABLES
  gitTool,     \* the tool called: git or git_enhanced
  gitSub,      \* args.subcommand of git, args.operation of git_enhanced
  gitArgs,     \* args.args of git, as its words
  gitPolicy,   \* context.sandboxPolicy
  gitResult    \* what the handler did

gitVars == <<gitTool, gitSub, gitArgs, gitPolicy, gitResult>>

\* One call of run and the record of its work (SpecResult).
VARIABLES
  rpc,            \* idle, llm, tools, done
  rIteration,     \* reactLoop's iteration
  rErrors,        \* reactLoop's consecutiveErrors
  rCall,          \* the tool call of the iteration: its tool, none outside
  allToolCalls,   \* reactLoop's allToolCalls: the ids of the calls
  totalTokens,    \* reactLoop's totalTokens
  modifiedFiles,  \* reactLoop's modifiedFiles: how often each path is in it
  rResult         \* the AgentRunResult run returned

resultVars == <<rpc, rIteration, rErrors, rCall, allToolCalls, totalTokens,
                modifiedFiles, rResult>>

toolVars == <<matchVars, registryVars, schemaVars, gitVars, resultVars>>

\* ThreadManager with the sessions of several chats (SpecSessions).
VARIABLES
  threads,       \* ThreadManager.threads: per id the Thread, or Lost
  sessionFiles,  \* the sessions directory: per file its content
  job,           \* per caller: the ThreadManager call it is in
  nextId,        \* the ids generateId has given, plus one
  sessionOps,    \* calls made so far
  boots          \* process restarts so far

sessionVars == <<threads, sessionFiles, job, nextId, sessionOps, boots>>

\* What needsApproval answered for each request it was asked about
\* (SpecNeedsApproval).
VARIABLES needed

needVars == <<needed>>

\* One execution of executeCommand (SpecExecuteCommand). Time is counted
\* in units of ten seconds.
VARIABLES
  procTimeout,  \* args.timeout of the call, 0 when the call gives none
  procLength,   \* the time the command takes when nothing stops it
  procClock,    \* the time since the spawn
  procState,    \* idle, running, ended
  procResult    \* the tool result of the call

procVars == <<procTimeout, procLength, procClock, procState, procResult>>

\* mergePolicies on two policies and the matcher of the merged policy on a
\* name (SpecMerge).
VARIABLES
  mgPolicies,  \* the policies given to mergePolicies
  mgName,      \* the tool name
  mgMerged,    \* the policy mergePolicies returned
  mgAccepted   \* what the matcher of the merged policy answered: none, yes, no

mergeVars == <<mgPolicies, mgName, mgMerged, mgAccepted>>

\* One call of write_file or edit_file that passed the policy and path
\* checks (SpecBackup).
VARIABLES
  bkCall,    \* the call: tool, mode, and whether the new content differs
  bkPc,      \* idle, read, backup, write, done
  bkFile,    \* the file: exists, and changed by the call
  bkBackup,  \* a backup of the file was written
  bkResult   \* success of the tool result: none, yes, no

backupVars == <<bkCall, bkPc, bkFile, bkBackup, bkResult>>

\* CustomWebSocketManager (SpecWebSocket).
VARIABLES
  wsConfig,          \* the constructor's token and url: ok, noToken, badUrl
  shouldReconnect,   \* CustomWebSocketManager.shouldReconnect
  reconnectAttempts, \* CustomWebSocketManager.reconnectAttempts
  sockets,           \* the sockets opened and not yet closed
  timers,            \* the reconnect timers armed and not yet fired
  opened,            \* the sockets opened so far
  stopped,           \* stop() was called, a close told an authentication
                     \* failure, or connect() threw, and no connect() since
  lastClose,         \* the last close: none, auth, other
  lastTimer          \* the last reconnect timer: none, opened, skipped

wsVars == <<wsConfig, shouldReconnect, reconnectAttempts, sockets, timers,
            opened, stopped, lastClose, lastTimer>>

auxVars == <<sessionVars, needVars, procVars, mergeVars, backupVars, wsVars>>

\* pc: idle (no loop), top (at the head of the while loop), llm (waiting for
\* the completion service), tools (executeToolsParallel), break / ceiling
\* (after the loop).

vars == <<threadExists, messages, status, pc, entry, iteration,
          consecutiveErrors, lastOutput, batch, toolState, completed, outcome,
          runs, requested, toolMsgs, cancel, emitted, storeVars, cmdVars,
          pathVars, auxVars,
          approvalVars, handlerVars, toolVars>>

engineVars == <<threadExists, messages, status, pc, entry, iteration,
                consecutiveErrors, lastOutput, batch, toolState, completed,
                outcome, runs, requested, toolMsgs, cancel, emitted>>

notEngine ==
  <<storeVars, cmdVars, pathVars, approvalVars, handlerVars, toolVars, auxVars>>
notStore ==
  <<engineVars, cmdVars, pathVars, approvalVars, handlerVars, toolVars, auxVars>>
notCommand ==
  <<engineVars, storeVars, pathVars, approvalVars, handlerVars, toolVars, auxVars>>
notPath ==
  <<engineVars, storeVars, cmdVars, approvalVars, handlerVars, toolVars, auxVars>>
notApproval ==
  <<engineVars, storeVars, cmdVars, pathVars, handlerVars, toolVars, auxVars>>
notHandlers ==
  <<engineVars, storeVars, cmdVars, pathVars, approvalVars, toolVars, auxVars>>
notAux ==
  <<engineVars, storeVars, cmdVars, pathVars, approvalVars, handlerVars,
    toolVars>>
notSessions == <<notAux, needVars, procVars, mergeVars, backupVars, wsVars>>
notNeeds == <<notAux, sessionVars, procVars, mergeVars, backupVars, wsVars>>
notProc == <<notAux, sessionVars, needVars, mergeVars, backupVars, wsVars>>
notMerge == <<notAux, sessionVars, needVars, procVars, backupVars, wsVars>>
notBackup == <<notAux, sessionVars, needVars, procVars, mergeVars, wsVars>>
notWs == <<notAux, sessionVars, needVars, procVars, mergeVars, backupVars>>
notTools ==
  <<engineVars, storeVars, cmdVars, pathVars, approvalVars, handlerVars, auxVars>>

ToolNames == {"read_file", "write_file"}

\* ToolRegistry.canExecuteInParallel: the tools that make a batch sequential.
writeTools == {"write_file", "edit_file", "exec_command"}

Msg(role, content, toolCalls, toolCallId) ==
  [role |-> role, content |-> content, toolCalls |-> toolCalls,
   toolCallId |-> toolCallId]

NoId == 0

\* ------------------------------------------------------------ ThreadManager
\* Array.prototype.slice(-k): the last k elements; slice(-0) is slice(0), the
\* whole array.
SliceLast(s, k) ==
  IF k = 0 \/ k >= Len(s) THEN s
  ELSE SubSeq(s, Len(s) - k + 1, Len(s))

\* Array.prototype.find(m => m.role === "system"): index of the first, or 0.
FindSystem(s) ==
  IF \E i \in 1..Len(s) : s[i].role = "system"
  THEN CHOOSE i \in 1..Len(s) :
         /\ s[i].role = "system"
         /\ \A j \in 1..(i - 1) : s[j].role # "system"
  ELSE 0

\* The trim of addMessage.
Trim(s) ==
  LET sys    == FindSystem(s)
      recent == SliceLast(s, maxHistoryMessages - 1)
  IN  IF sys # 0 /\ (Len(recent) = 0 \/ recent[1].role # "system")
      THEN <<s[sys]>> \o recent
      ELSE recent

\* ThreadManager.addMessage: push, then trim when over the limit.
AddMessage(s, m) ==
  LET pushed == Append(s, m)
  IN  IF Len(pushed) > maxHistoryMessages THEN Trim(pushed) ELSE pushed

RECURSIVE AddMessages(_, _)
AddMessages(s, ms) ==
  IF ms = <<>> THEN s
  ELSE AddMessages(AddMessage(s, Head(ms)), Tail(ms))

\* ------------------------------------------------------------- AgentEngine
\* What a call of run or continue gives its caller: an AgentRunResult
\* (success, output) or an exception; via is the statement that ended the
\* loop: answer (engine.ts 253), break (187), ceiling (180), threw.
\* listener records that a listener of turn.completed or of error threw while
\* run was ending (engine.ts 149, 156).
NoOutcome ==
  [kind |-> "none", success |-> FALSE, output |-> "", via |-> "",
   listener |-> FALSE]
Returned(success, output, via) ==
  [kind |-> "returned", success |-> success, output |-> output, via |-> via,
   listener |-> FALSE]
Thrown(via) ==
  [kind |-> "thrown", success |-> FALSE, output |-> "", via |-> via,
   listener |-> FALSE]

\* The events of a call: emit (engine.ts 88-92) calls the listeners there
\* are, none included.
Events(started, ended, failed) ==
  [started |-> started, completed |-> ended, error |-> failed]

\* The tool-call ids the completion service gives in an iteration: unique.
CallId(it, i) == (it - 1) * MaxBatch + i

\* The responses of the completion service: the names of the requested tools.
Batches == UNION {[1..n -> ToolNames] : n \in 0..MaxBatch}

ResetLoop ==
  /\ batch' = <<>>
  /\ toolState' = <<>>
  /\ completed' = <<>>
  /\ requested' = <<>>
  /\ toolMsgs' = <<>>

\* reactLoop's variables at its start (engine.ts 173-178); they end with it.
LoopLocals ==
  /\ iteration' = 0
  /\ consecutiveErrors' = 0
  /\ lastOutput' = ""
  /\ ResetLoop
  /\ cancel' = "none"

\* A run without its catch block: the exception of the loop passes and the
\* status is left as it is.
LeaveWithoutCatch(threw, result, lt1, lt2) ==
  /\ pc' = "idle"
  /\ LoopLocals
  /\ status' = IF threw THEN status ELSE "idle"
  /\ outcome' = IF threw THEN Thrown(result.via) ELSE result
  /\ emitted' = IF entry = "run" /\ ~threw
                THEN [emitted EXCEPT !.completed = @ + 1]
                ELSE emitted

\* What run does with the value or the exception of its try block
\* (engine.ts 146-168), and continue with those of reactLoop (434-437).
\* threw: the loop threw; lt1, lt2: a listener of turn.completed, of error,
\* throws.
Leave(threw, result, lt1, lt2) ==
  /\ pc' = "idle"
  /\ LoopLocals
  /\ IF entry = "run"
     THEN /\ status' = "idle"
          /\ outcome' =
               IF ~threw /\ ~lt1 THEN result
               ELSE IF ~lt2
                    THEN [Returned(FALSE, "error", result.via)
                            EXCEPT !.listener = lt1]
               ELSE [Thrown(result.via) EXCEPT !.listener = TRUE]
          /\ emitted' =
               [emitted EXCEPT
                  !.completed = IF threw THEN @ ELSE @ + 1,
                  !.error = IF threw \/ lt1 THEN @ + 1 ELSE @]
     ELSE /\ status' = IF threw THEN status ELSE "idle"
          /\ outcome' = IF threw THEN Thrown(result.via) ELSE result
          /\ UNCHANGED emitted

EnterLoop(fn) ==
  /\ pc' = "top"
  /\ entry' = fn
  /\ LoopLocals

\* AgentEngine.run up to the call of reactLoop (engine.ts 95-146).
RunCall ==
  /\ UNCHANGED notEngine
  /\ pc = "idle"
  /\ runs' = runs + 1
  /\ threadExists' = TRUE
  /\ emitted' = Events(1, 0, 0)
  /\ \E lt \in BOOLEAN :
       IF lt
       THEN \* a listener of turn.started throws: outside the try block
            /\ status' = "running"
            /\ outcome' = Thrown("started")
            /\ UNCHANGED <<messages, pc, entry, iteration, consecutiveErrors,
                           lastOutput, batch, toolState, completed,
                           requested, toolMsgs, cancel>>
       ELSE /\ status' = "running"
            /\ messages' =
                 AddMessages(messages,
                   (IF FindSystem(messages) = 0
                    THEN <<Msg("system", "prompt", <<>>, NoId)>>
                    ELSE <<>>)
                   \o <<Msg("user", "task", <<>>, NoId)>>)
            /\ EnterLoop("run")
            /\ outcome' = NoOutcome

Run ==
  /\ runs < MaxRuns
  /\ RunCall

\* handleResume (agent.ts 417-441) and AgentEngine.continue (engine.ts 419-433).
ResumeCall ==
  /\ UNCHANGED notEngine
  /\ pc = "idle"
  /\ status # "running"
  /\ runs' = runs + 1
  /\ emitted' = Events(0, 0, 0)
  /\ messages' = AddMessage(messages, Msg("user", "resume", <<>>, NoId))
  /\ status' = "running"
  /\ EnterLoop("continue")
  /\ outcome' = NoOutcome
  /\ threadExists' = TRUE

Resume ==
  /\ runs < MaxRuns
  /\ ResumeCall

\* The head of the while loop (engine.ts 180-192): pc is break when the loop
\* is left by the break of the error check, ceiling when its condition fails.
LoopTop ==
  /\ UNCHANGED notEngine
  /\ pc = "top"
  /\ cancel' = IF cancel = "asked" THEN "passed" ELSE cancel
  /\ IF iteration < MAX_ITERATIONS
     THEN /\ iteration' = iteration + 1
          /\ pc' = IF consecutiveErrors >= MAX_CONSECUTIVE_ERRORS
                   THEN "break" ELSE "llm"
     ELSE /\ pc' = "ceiling"
          /\ UNCHANGED iteration
  /\ UNCHANGED <<threadExists, messages, status, entry, consecutiveErrors,
                 lastOutput, batch, toolState, completed, outcome, runs, emitted,
                 requested, toolMsgs>>

\* A return after the loop that reports failure only when the error check
\* left the loop.
LoopResultCeilingSucceeds ==
  Returned(pc = "ceiling",
           IF lastOutput # "" THEN lastOutput ELSE "incomplete",
           pc)

\* The return after the loop (engine.ts 324-334).
LoopResult ==
  Returned(iteration < MAX_ITERATIONS,
           IF lastOutput # "" THEN lastOutput ELSE "incomplete",
           pc)

LoopExit ==
  /\ UNCHANGED notEngine
  /\ pc \in {"break", "ceiling"}
  /\ \E lt1, lt2 \in BOOLEAN : Leave(FALSE, LoopResult, lt1, lt2)
  /\ UNCHANGED <<threadExists, messages, entry, runs>>

\* llm.complete rejects (engine.ts 209): the exception leaves reactLoop.
LLMFails ==
  /\ UNCHANGED notEngine
  /\ pc = "llm"
  /\ \E lt2 \in BOOLEAN : Leave(TRUE, Thrown("llm"), FALSE, lt2)
  /\ UNCHANGED <<threadExists, messages, entry, runs>>

\* llm.complete answers without tool calls (engine.ts 236-260).
LLMFinal ==
  /\ UNCHANGED notEngine
  /\ pc = "llm"
  /\ \E content \in {"", "text"} :
       /\ messages' = IF content # ""
                      THEN AddMessage(messages,
                                      Msg("assistant", content, <<>>, NoId))
                      ELSE messages
       /\ \E lt1, lt2 \in BOOLEAN :
            Leave(FALSE,
                  Returned(TRUE, IF content # "" THEN content ELSE lastOutput,
                           "answer"),
                  lt1, lt2)
  /\ UNCHANGED <<threadExists, entry, runs>>

\* llm.complete answers with tool calls (engine.ts 236-272, 360): the text
\* and the calls are saved and every call's task is created.
LLMTools ==
  /\ UNCHANGED notEngine
  /\ pc = "llm"
  /\ \E content \in {"", "text"}, names \in Batches \ {<<>>} :
       LET ids == [i \in 1..Len(names) |-> CallId(iteration, i)]
       IN  /\ messages' =
                AddMessages(messages,
                  (IF content # ""
                   THEN <<Msg("assistant", content, <<>>, NoId)>>
                   ELSE <<>>)
                  \o <<Msg("assistant", content, ids, NoId)>>)
           /\ lastOutput' = IF content # "" THEN content ELSE lastOutput
           /\ batch' = [i \in 1..Len(names) |->
                          [id |-> ids[i], name |-> names[i]]]
           /\ toolState' = [i \in 1..Len(names) |-> "new"]
           /\ completed' = <<>>
           /\ requested' = ids
  /\ toolMsgs' = <<>>
  /\ pc' = "tools"
  /\ UNCHANGED <<threadExists, status, entry, iteration, consecutiveErrors,
                 outcome, runs, emitted, cancel>>

\* One task of executeToolsParallel starts its call (engine.ts 360-375):
\* the tasks are created in the order of the calls and none waits for another.
ToolStart(i) ==
  /\ UNCHANGED notEngine
  /\ pc = "tools"
  /\ i \in DOMAIN batch
  /\ toolState[i] = "new"
  /\ \A j \in 1..(i - 1) : toolState[j] # "new"
  /\ toolState' = [toolState EXCEPT ![i] = "exec"]
  /\ UNCHANGED <<threadExists, messages, status, pc, entry, iteration,
                 consecutiveErrors, lastOutput, batch, completed, outcome,
                 runs, emitted, requested, toolMsgs, cancel>>

\* ToolRegistry.execute gives the call's result (registry.ts 74-117).
ToolFinish(i) ==
  /\ UNCHANGED notEngine
  /\ pc = "tools"
  /\ i \in DOMAIN batch
  /\ toolState[i] = "exec"
  /\ \E r \in {"ok", "err"} : toolState' = [toolState EXCEPT ![i] = r]
  /\ completed' = Append(completed, i)
  /\ UNCHANGED <<threadExists, messages, status, pc, entry, iteration,
                 consecutiveErrors, lastOutput, batch, outcome, runs, emitted,
                 requested, toolMsgs, cancel>>

\* A listener of item.started or item.completed throws (engine.ts 361, 377):
\* Promise.all rejects and the exception leaves reactLoop.
ToolEmitFails ==
  /\ UNCHANGED notEngine
  /\ pc = "tools"
  /\ \E lt2 \in BOOLEAN : Leave(TRUE, Thrown("threw"), FALSE, lt2)
  /\ UNCHANGED <<threadExists, messages, entry, runs>>

\* A loop that saves a tool message for the successful results only.
RECURSIVE ResultMessagesSkipFailed(_, _, _)
ResultMessagesSkipFailed(calls, states, i) ==
  IF i > Len(calls) THEN <<>>
  ELSE (IF states[i] = "ok"
        THEN <<Msg("tool", "result", <<>>, calls[i].id)>>
        ELSE <<Msg("system", "hint", <<>>, NoId)>>)
       \o ResultMessagesSkipFailed(calls, states, i + 1)

\* The messages the loop adds for the results, in the order of the results
\* (engine.ts 293-315).
RECURSIVE ResultMessages(_, _, _)
ResultMessages(calls, states, i) ==
  IF i > Len(calls) THEN <<>>
  ELSE <<Msg("tool", IF states[i] = "ok" THEN "result" ELSE "error", <<>>,
             calls[i].id)>>
       \o (IF states[i] = "ok" THEN <<>>
           ELSE <<Msg("system", "hint", <<>>, NoId)>>)
       \o ResultMessages(calls, states, i + 1)

ToolMessageIds(ms) ==
  LET idx == {k \in 1..Len(ms) : ms[k].role = "tool"}
      RECURSIVE Pick(_)
      Pick(k) == IF k > Len(ms) THEN <<>>
                 ELSE (IF k \in idx THEN <<ms[k].toolCallId>> ELSE <<>>)
                      \o Pick(k + 1)
  IN  Pick(1)

\* The orders in which the tasks of a batch can end: every order.
SettleOrders(S) ==
  {o \in [1..Cardinality(S) -> S] : \A i \in S : \E k \in DOMAIN o : o[k] = i}

\* A collection of the results in the order in which the tasks ended.
PromiseAllAsSettled(order) == order

\* Promise.all (engine.ts 412): the results in the order of the promises,
\* which is the order of the calls of the response (engine.ts 360), whatever
\* the order in which the promises settled.
PromiseAll(order) == [k \in DOMAIN order |-> k]

\* A saving of the results whose counter counts every failing iteration of
\* the loop, consecutive or not.
SaveResultsNeverReset(states, order) ==
  /\ LET at == PromiseAll(order)
         ms == ResultMessages([k \in DOMAIN at |-> batch[at[k]]],
                              [k \in DOMAIN at |-> states[at[k]]], 1)
     IN  /\ messages' = AddMessages(messages, ms)
         /\ toolMsgs' = ToolMessageIds(ms)
  /\ consecutiveErrors' =
       IF \E i \in DOMAIN batch : states[i] = "err"
       THEN consecutiveErrors + 1 ELSE consecutiveErrors
  /\ batch' = <<>>
  /\ toolState' = <<>>
  /\ completed' = order
  /\ pc' = "top"
  /\ UNCHANGED <<threadExists, status, entry, iteration, lastOutput,
                 outcome, runs, emitted, requested, cancel>>

\* After Promise.all: the results are saved and the error counter updated
\* (engine.ts 291-322).
SaveResults(states, order) ==
  /\ LET at == PromiseAll(order)
         ms == ResultMessages([k \in DOMAIN at |-> batch[at[k]]],
                              [k \in DOMAIN at |-> states[at[k]]], 1)
     IN  /\ messages' = AddMessages(messages, ms)
         /\ toolMsgs' = ToolMessageIds(ms)
  /\ consecutiveErrors' =
       IF \E i \in DOMAIN batch : states[i] = "err"
       THEN consecutiveErrors + 1 ELSE 0
  /\ batch' = <<>>
  /\ toolState' = <<>>
  /\ completed' = order
  /\ pc' = "top"
  /\ UNCHANGED <<threadExists, status, entry, iteration, lastOutput,
                 outcome, runs, emitted, requested, cancel>>

\* Promise.all resolves once every task has its result (engine.ts 412).
PersistResults ==
  /\ UNCHANGED notEngine
  /\ pc = "tools"
  /\ \A i \in DOMAIN batch : toolState[i] \in {"ok", "err"}
  /\ SaveResults(toolState, completed)

\* executeToolsParallel and the saving of its results as one step: every call
\* of the batch gets a result (engine.ts 283-322).
ExecuteTools ==
  /\ UNCHANGED notEngine
  /\ pc = "tools"
  /\ \A i \in DOMAIN batch : toolState[i] = "new"
  /\ \E states \in [DOMAIN batch -> {"ok", "err"}],
        order \in SettleOrders(DOMAIN batch) : SaveResults(states, order)

\* handleCancel (agent.ts 401-415) on a session whose loop is running: the
\* status is "running", threadManager.cancel is called; ThreadManager has no
\* such method, the TypeError is caught and answered with "Failed to cancel".
\* Nothing of the session changes.
HandleCancel ==
  /\ UNCHANGED notEngine
  /\ pc # "idle"
  /\ status = "running"
  /\ cancel = "none"
  /\ cancel' = "asked"
  /\ UNCHANGED <<threadExists, messages, status, pc, entry, iteration,
                 consecutiveErrors, lastOutput, batch, toolState, completed,
                 outcome, runs, emitted, requested, toolMsgs>>

EngineInit ==
  /\ threadExists = FALSE
  /\ messages = <<>>
  /\ status = "idle"
  /\ pc = "idle"
  /\ entry = "run"
  /\ iteration = 0
  /\ consecutiveErrors = 0
  /\ lastOutput = ""
  /\ batch = <<>>
  /\ toolState = <<>>
  /\ completed = <<>>
  /\ outcome = NoOutcome
  /\ runs = 0
  /\ emitted = Events(0, 0, 0)
  /\ requested = <<>>
  /\ toolMsgs = <<>>
  /\ cancel = "none"

\* ------------------------------------------- ThreadManager: persistence
Callers == {"a", "b"}

StoreOps ==
  {"addMessage", "statusRunning", "statusIdle", "addTokenUsage", "reset"}

\* id, chatId, userId and workingDirectory of a Thread (thread.ts 39-42).
Identity(id, chatId, userId, dir) ==
  [id |-> id, chatId |-> chatId, userId |-> userId, workingDirectory |-> dir]
NoIdentity == Identity("", "", "", "")

Lost ==
  [kind |-> "lost", msgs |-> 0, status |-> "", tokens |-> 0,
   identity |-> NoIdentity]
EmptyFile ==
  [kind |-> "empty", msgs |-> 0, status |-> "", tokens |-> 0,
   identity |-> NoIdentity]

\* ThreadManager.create (thread.ts 38-48).
NewThread ==
  [kind |-> "thread", msgs |-> 0, status |-> "idle", tokens |-> 0,
   identity |-> Identity("thread_1", "chat", "user", "workspace")]

\* ThreadManager.save: the JSON text handed to fs.writeFile (thread.ts 94-108).
Serialize(t) == [t EXCEPT !.kind = "json"]

\* ThreadManager.load: null when the file does not parse (thread.ts 113-135).
Load(d) == IF d.kind = "json" THEN [d EXCEPT !.kind = "thread"] ELSE Lost

\* A reset that clears the log and leaves the token counter.
MutateResetKeepsTokens(op, t) ==
  CASE op = "addMessage"    -> [t EXCEPT !.msgs = @ + 1]
    [] op = "statusRunning" -> [t EXCEPT !.status = "running"]
    [] op = "statusIdle"    -> [t EXCEPT !.status = "idle"]
    [] op = "addTokenUsage" -> [t EXCEPT !.tokens = @ + 1]
    [] op = "reset"         -> [t EXCEPT !.msgs = 0, !.status = "idle"]

\* The mutation of addMessage, updateStatus, addTokenUsage and reset
\* (thread.ts 144-145, 175-177, 225, 187-190).
Mutate(op, t) ==
  CASE op = "addMessage"    -> [t EXCEPT !.msgs = @ + 1]
    [] op = "statusRunning" -> [t EXCEPT !.status = "running"]
    [] op = "statusIdle"    -> [t EXCEPT !.status = "idle"]
    [] op = "addTokenUsage" -> [t EXCEPT !.tokens = @ + 1]
    [] op = "reset"         ->
         [t EXCEPT !.msgs = 0, !.tokens = 0, !.status = "idle"]

\* op: the operation that waits for the save.
NoWrite == [phase |-> "none", snap |-> EmptyFile, op |-> "none"]

StoreInit ==
  /\ sMem = NewThread
  /\ sDisk = Serialize(NewThread)
  /\ sWrite = [c \in Callers |-> NoWrite]
  /\ sOps = 0
  /\ sLast = NewThread
  /\ sUp = TRUE

\* addMessage, updateStatus, addTokenUsage or reset up to its await of
\* save(): the Thread object is changed and its JSON text handed to
\* fs.writeFile (thread.ts 138-163, 167-180, 183-196, 221-227).
StoreBegin(c, op) ==
  /\ UNCHANGED notStore
  /\ sUp
  /\ sMem.kind = "thread"
  /\ sWrite[c].phase = "none"
  /\ sOps < MaxStoreOps
  /\ sOps' = sOps + 1
  /\ sMem' = Mutate(op, sMem)
  /\ sWrite' = [sWrite EXCEPT ![c] =
                  [phase |-> "queued", snap |-> Serialize(sMem'), op |-> op]]
  /\ UNCHANGED <<sDisk, sLast, sUp>>

\* ThreadManager.delete (thread.ts 199-206): the session leaves the map and
\* its file is unlinked.
StoreDelete ==
  /\ UNCHANGED notStore
  /\ sUp
  /\ sMem.kind = "thread"
  /\ sOps < MaxStoreOps
  /\ sOps' = sOps + 1
  /\ sMem' = Lost
  /\ sDisk' = EmptyFile
  /\ UNCHANGED <<sWrite, sLast, sUp>>

\* fs.writeFile opens the file with flag "w": the file is truncated
\* (thread.ts 108).
StoreWriteOpen(c) ==
  /\ UNCHANGED notStore
  /\ sUp
  /\ sWrite[c].phase = "queued"
  /\ sWrite' = [sWrite EXCEPT ![c].phase = "opened"]
  /\ sDisk' = EmptyFile
  /\ UNCHANGED <<sMem, sOps, sLast, sUp>>

\* fs.writeFile writes its text (thread.ts 108).
StoreWriteData(c) ==
  /\ UNCHANGED notStore
  /\ sUp
  /\ sWrite[c].phase = "opened"
  /\ sWrite' = [sWrite EXCEPT ![c].phase = "written"]
  /\ sDisk' = sWrite[c].snap
  /\ UNCHANGED <<sMem, sOps, sLast, sUp>>

\* save() resolves and the operation returns (thread.ts 163, 180, 227).
StoreReturn(c) ==
  /\ UNCHANGED notStore
  /\ sUp
  /\ sWrite[c].phase = "written"
  /\ sWrite' = [sWrite EXCEPT ![c] = NoWrite]
  /\ sLast' = Load(sWrite[c].snap)
  /\ UNCHANGED <<sMem, sDisk, sOps, sUp>>

\* The process is killed and started again: the session is read from its
\* file (thread.ts 66-76, 113-135). sWrite keeps what was in flight.
StoreRestart ==
  /\ UNCHANGED notStore
  /\ sUp
  /\ sUp' = FALSE
  /\ sMem' = Load(sDisk)
  /\ UNCHANGED <<sDisk, sWrite, sOps, sLast>>

NextStore ==
  \/ \E c \in Callers, op \in StoreOps : StoreBegin(c, op)
  \/ \E c \in Callers : StoreWriteOpen(c)
  \/ \E c \in Callers : StoreWriteData(c)
  \/ \E c \in Callers : StoreReturn(c)
  \/ StoreDelete
  \/ StoreRestart

\* --------------------------------------------- safety.ts: validateCommand
SandboxPolicies == {"read-only", "workspace-write", "full-access"}

\* The words a command is made of. A command is its words joined by blanks;
\* the patterns below are the regular expressions of safety.ts and exec.ts
\* read on the words (\s+ is the gap between two words; the patterns are
\* not anchored unless they begin with ^).
Words == {"rm", "-rf", "/", "shutdown", "git", "push", "status", "npm",
          "install", "cat", "tmp"}

Commands == UNION {[1..n -> Words] : n \in 1..MaxCommandWords}

\* Some i with cmd[i] in A and cmd[i+1] in B (and cmd[i+2] in C).
Pair(cmd, A, B) ==
  \E i \in 1..(Len(cmd) - 1) : cmd[i] \in A /\ cmd[i + 1] \in B
Triple(cmd, A, B, C) ==
  \E i \in 1..(Len(cmd) - 2) :
    cmd[i] \in A /\ cmd[i + 1] \in B /\ cmd[i + 2] \in C
Some(cmd, A) == \E i \in 1..Len(cmd) : cmd[i] \in A
\* A word of A followed by a blank.
SomeBeforeBlank(cmd, A) == \E i \in 1..(Len(cmd) - 1) : cmd[i] \in A

\* The words of Words (and a few more) that end with, begin with or contain
\* a text.
EndsRm == {"rm"}
RecursiveFlag == {"-r", "-rf", "--recursive"}
BeginsSlash == {"/", "/dev/sda", "/etc"}
BeginsTilde == {"~", "~/"}

\* BLOCKED_PATTERNS (safety.ts 17-29), in the order of the list.
MatchesBlocked(cmd) ==
  \/ Triple(cmd, EndsRm, RecursiveFlag, BeginsSlash)      \* rm -rf /
  \/ Triple(cmd, EndsRm, RecursiveFlag, BeginsTilde)      \* rm -rf ~
  \/ \E i \in 1..(Len(cmd) - 3) :                         \* del /s /q C:\
       /\ cmd[i] = "del" /\ cmd[i + 1] = "/s" /\ cmd[i + 2] = "/q"
       /\ cmd[i + 3] = "C:\\"
  \/ Pair(cmd, {"format"}, {"C:"})                        \* format C:
  \/ Some(cmd, {"mkfs", "mkfs.ext4"})                     \* mkfs
  \/ Triple(cmd, {"dd"}, {"if=/dev/zero"}, {"of=/dev/sda"}) \* dd to a device
  \/ Triple(cmd, {":(){"}, {":|:&"}, {"};:"})             \* fork bomb
  \/ Some(cmd, {">/dev/sda"})                             \* write to a disk
  \/ Some(cmd, {"shutdown", "reboot"})                    \* shutdown, reboot
  \/ Pair(cmd, {"init"}, {"0", "6"})                      \* init 0
  \/ Triple(cmd, {"chmod"}, {"777"}, BeginsSlash)         \* chmod 777 /
  \/ Triple(cmd, {"chown"}, {"-R"}, BeginsSlash)          \* chown -R ... /

\* DANGEROUS_PATTERNS (safety.ts 32-42).
MatchesDangerous(cmd) ==
  \/ SomeBeforeBlank(cmd, EndsRm)                         \* rm
  \/ SomeBeforeBlank(cmd, {"del"})                        \* del
  \/ Pair(cmd, {"git"}, {"push"})                         \* git push
  \/ Triple(cmd, {"git"}, {"reset"}, {"--hard"})          \* git reset --hard
  \/ Pair(cmd, {"npm"}, {"publish"})                      \* npm publish
  \/ Pair(cmd, {"docker"}, {"rm", "rmi", "kill"})         \* docker rm
  \/ Pair(cmd, {"kubectl"}, {"delete"})                   \* kubectl delete
  \/ Pair(cmd, {"DROP"}, {"TABLE", "DATABASE"})           \* DROP TABLE
  \/ Pair(cmd, {"TRUNCATE"}, {"TABLE"})                   \* TRUNCATE TABLE

\* The install pattern (safety.ts 90-92).
MatchesInstall(cmd) ==
  Pair(cmd, {"npm", "pip", "apt", "brew"}, {"install"})

Validation(allowed, reason, requiresApproval, riskLevel) ==
  [allowed |-> allowed, reason |-> reason,
   requiresApproval |-> requiresApproval, riskLevel |-> riskLevel]

\* A validator that trusts full-access: it skips the block list there.
validateCommandTrustingFullAccess(cmd, policy) ==
  IF MatchesBlocked(cmd) /\ policy # "full-access"
  THEN Validation(FALSE, "blocked", FALSE, "high")
  ELSE IF policy = "read-only"
  THEN Validation(FALSE, "read-only", FALSE, "low")
  ELSE IF MatchesDangerous(cmd)
  THEN Validation(TRUE, "", TRUE, "high")
  ELSE IF MatchesInstall(cmd)
  THEN Validation(TRUE, "", policy # "full-access", "medium")
  ELSE Validation(TRUE, "", FALSE, "low")

\* validateCommand (safety.ts 52-106).
validateCommand(cmd, policy) ==
  IF MatchesBlocked(cmd)
  THEN Validation(FALSE, "blocked", FALSE, "high")
  ELSE IF policy = "read-only"
  THEN Validation(FALSE, "read-only", FALSE, "low")
  ELSE IF MatchesDangerous(cmd)
  THEN Validation(TRUE, "", TRUE, "high")
  ELSE IF MatchesInstall(cmd)
  THEN Validation(TRUE, "", policy # "full-access", "medium")
  ELSE Validation(TRUE, "", FALSE, "low")

\* canExecuteCommands (safety.ts 12-14).
canExecuteCommands(policy) == policy = "full-access"

\* safePatterns (exec.ts 43-49): anchored at the start of the command.
MatchesSafe(cmd) ==
  \/ /\ Len(cmd) >= 2
     /\ cmd[1] \in {"npm", "bun", "yarn", "pnpm"}
     /\ cmd[2] \in {"run", "test", "build", "lint"}
  \/ cmd[1] \in {"tsc", "eslint", "prettier"}
  \/ /\ Len(cmd) >= 2
     /\ cmd[1] = "git"
     /\ cmd[2] \in {"status", "log", "diff", "branch", "show"}
  \/ cmd[1] \in {"cat", "head", "tail", "wc", "grep"}
  \/ cmd[1] \in {"ls", "dir"}

\* execCommandHandler (exec.ts 33-110): whether the command is spawned, and
\* the error it answers with when it is not.
execCommandHandler(cmd, policy) ==
  LET v == validateCommand(cmd, policy)
  IN  IF ~canExecuteCommands(policy) /\ ~MatchesSafe(cmd)
           /\ policy # "full-access"
      THEN [spawned |-> FALSE, error |-> "requires full-access"]
      ELSE IF ~v.allowed
      THEN [spawned |-> FALSE, error |-> v.reason]
      ELSE IF v.requiresApproval
      THEN [spawned |-> FALSE, error |-> "requires approval"]
      ELSE [spawned |-> TRUE, error |-> ""]

NoValidation == Validation(FALSE, "none", FALSE, "")
NoExec == [spawned |-> FALSE, error |-> "none"]

CommandInit ==
  /\ command \in Commands
  /\ cmdPolicy \in SandboxPolicies
  /\ validation = NoValidation
  /\ execResult = NoExec

\* The initial values of the command variables in the other specifications.
CommandIdle ==
  /\ command = <<"cat">>
  /\ cmdPolicy = "read-only"
  /\ validation = NoValidation
  /\ execResult = NoExec

ValidateCommand ==
  /\ UNCHANGED notCommand
  /\ validation = NoValidation
  /\ validation' = validateCommand(command, cmdPolicy)
  /\ UNCHANGED <<command, cmdPolicy, execResult>>

ExecCommand ==
  /\ UNCHANGED notCommand
  /\ execResult = NoExec
  /\ execResult' = execCommandHandler(command, cmdPolicy)
  /\ UNCHANGED <<command, cmdPolicy, validation>>

NextCommand ==
  \/ ValidateCommand
  \/ ExecCommand

\* ------------------------------------------------- safety.ts: validatePath
\* A text is the sequence of its characters. Segment names of the paths:
Name_ws == <<"w", "s">>
Name_ws2 == <<"w", "s", "2">>
Name_a == <<"a">>
Name_up == <<".", ".">>
Name_env == <<".", "e", "n", "v">>
PathNames == {Name_ws, Name_ws2, Name_a, Name_up, Name_env}

\* A path: absolute or relative, and its segments.
Paths ==
  [abs : BOOLEAN,
   segs : UNION {[1..n -> PathNames] : n \in 0..MaxPathSegments}]

\* context.workingDirectory: /ws
workingDirectory == [abs |-> TRUE, segs |-> <<Name_ws>>]

\* path.resolve on segments: ".." removes the segment before it (none at the
\* root of the file system).
RECURSIVE Normalize(_, _)
Normalize(done, rest) ==
  IF rest = <<>> THEN done
  ELSE IF Head(rest) = Name_up
  THEN Normalize(IF done = <<>> THEN <<>> ELSE SubSeq(done, 1, Len(done) - 1),
                 Tail(rest))
  ELSE Normalize(Append(done, Head(rest)), Tail(rest))

\* path.resolve(wd, p): p alone when it is absolute, else p under wd.
Resolve(wd, p) ==
  IF p.abs THEN Normalize(<<>>, p.segs) ELSE Normalize(wd.segs, p.segs)

\* The text of a resolved path: /seg/seg..., and / for the root.
RECURSIVE PathText(_)
PathText(segs) ==
  IF segs = <<>> THEN <<>>
  ELSE <<"/">> \o Head(segs) \o PathText(Tail(segs))

PathString(segs) == IF segs = <<>> THEN <<"/">> ELSE PathText(segs)

\* String.prototype.startsWith, endsWith and includes.
StartsWith(t, prefix) ==
  Len(t) >= Len(prefix) /\ SubSeq(t, 1, Len(prefix)) = prefix
EndsWith(t, suffix) ==
  Len(t) >= Len(suffix)
    /\ SubSeq(t, Len(t) - Len(suffix) + 1, Len(t)) = suffix
Includes(t, part) ==
  \E i \in 1..(Len(t) - Len(part) + 1) :
    SubSeq(t, i, i + Len(part) - 1) = part

\* sensitivePatterns (safety.ts 136-145) on a text.
MatchesSensitive(t) ==
  \/ EndsWith(t, <<".", "e", "n", "v">>)                       \* \.env$
  \/ \E i \in 1..(Len(t) - 5) :                                \* \.env\.[^.]+$
       /\ SubSeq(t, i, i + 4) = <<".", "e", "n", "v", ".">>
       /\ \A j \in (i + 5)..Len(t) : t[j] # "."
  \/ Includes(t, <<"i", "d", "_", "r", "s", "a">>)             \* id_rsa
  \/ Includes(t, <<"i", "d", "_", "e", "d", "2", "5", "5", "1", "9">>)
  \/ Includes(t, <<".", "a", "w", "s", "/", "c", "r", "e", "d", "e", "n",
                   "t", "i", "a", "l", "s">>)                  \* \.aws\/credentials
  \/ Includes(t, <<".", "s", "s", "h", "/">>)                  \* \.ssh\/
  \/ EndsWith(t, <<".", "g", "i", "t", "/", "c", "o", "n", "f", "i", "g">>)
  \/ EndsWith(t, <<".", "n", "p", "m", "r", "c">>)             \* \.npmrc$
  \/ EndsWith(t, <<".", "n", "e", "t", "r", "c">>)             \* \.netrc$

PathValidation(allowed, reason, normalizedPath) ==
  [allowed |-> allowed, reason |-> reason, normalizedPath |-> normalizedPath]

\* validatePath (safety.ts 115-161).
validatePath(p, wd, policy) ==
  LET normalized == PathString(Resolve(wd, p))
      workingDirNormalized == PathString(Resolve(wd, [abs |-> FALSE, segs |-> <<>>]))
  IN  IF ~StartsWith(normalized, workingDirNormalized)
           /\ policy # "full-access"
      THEN PathValidation(FALSE, "traversal", normalized)
      ELSE IF MatchesSensitive(normalized)
      THEN PathValidation(FALSE, "sensitive", normalized)
      ELSE PathValidation(TRUE, "", normalized)

NoPathResult == PathValidation(FALSE, "none", <<>>)

\* canWrite (safety.ts 8-10).
canWrite(policy) == policy \in {"workspace-write", "full-access"}

\* path.extname of a resolved path: the last segment from its last dot on,
\* nothing when the segment has no dot or only a leading one.
ExtName(segs) ==
  IF segs = <<>> THEN <<>>
  ELSE LET base == segs[Len(segs)]
           dots == {i \in 2..Len(base) : base[i] = "."}
       IN  IF dots = {} THEN <<>>
           ELSE LET d == CHOOSE i \in dots : \A j \in dots : j <= i
                IN  SubSeq(base, d, Len(base))

\* blockedExtensions (safety.ts 168-179).
blockedExtensions ==
  { <<".", "e", "x", "e">>, <<".", "d", "l", "l">>, <<".", "s", "o">>,
    <<".", "d", "y", "l", "i", "b">>, <<".", "b", "i", "n">>,
    <<".", "s", "h">>, <<".", "b", "a", "t">>, <<".", "c", "m", "d">>,
    <<".", "p", "s", "1">>, <<".", "v", "b", "s">> }

\* validateWriteExtension (safety.ts 164-192).
validateWriteExtension(segs) == ExtName(segs) \notin blockedExtensions

FileTools == {"read_file", "write_file", "edit_file"}

\* readFileHandler, writeFileHandler and editFileHandler up to their first
\* access to the file (file-edit.ts 43-79, 189-228, 317-368): TRUE when the
\* handler goes on to read or write the file at normalizedPath.
fileHandlerTouches(tool, p, wd, policy) ==
  /\ tool \in {"write_file", "edit_file"} => canWrite(policy)
  /\ validatePath(p, wd, policy).allowed
  /\ tool = "write_file" => validateWriteExtension(Resolve(wd, p))

PathInit ==
  /\ filePath \in Paths
  /\ pathPolicy \in SandboxPolicies
  /\ pathResult = NoPathResult
  /\ fileTool \in FileTools
  /\ touched = "none"

\* The initial values of the path variables in the other specifications.
PathIdle ==
  /\ filePath = [abs |-> FALSE, segs |-> <<Name_a>>]
  /\ pathPolicy = "read-only"
  /\ pathResult = NoPathResult
  /\ fileTool = "read_file"
  /\ touched = "none"

ValidatePath ==
  /\ UNCHANGED notPath
  /\ pathResult = NoPathResult
  /\ pathResult' = validatePath(filePath, workingDirectory, pathPolicy)
  /\ UNCHANGED <<filePath, pathPolicy, fileTool, touched>>

\* A file tool is called with the path.
FileToolCall ==
  /\ UNCHANGED notPath
  /\ touched = "none"
  /\ touched' =
       IF fileHandlerTouches(fileTool, filePath, workingDirectory, pathPolicy)
       THEN "touched" ELSE "refused"
  /\ UNCHANGED <<filePath, pathPolicy, pathResult, fileTool>>

NextPath ==
  \/ ValidatePath
  \/ FileToolCall

\* -------------------------------------------- approval.ts: ApprovalManager
ApprovalPolicies == {"never", "on-request", "always"}
RiskLevels == {"low", "medium", "high"}
RequestIds == 0..MaxClock

\* A needsApproval that asks under on-request for high risk only.
needsApprovalHighOnly(policy, risk) ==
  CASE policy = "never" -> FALSE
    [] policy = "always" -> TRUE
    [] OTHER -> risk = "high"

\* needsApproval (approval.ts 59-70).
needsApproval(policy, risk) ==
  CASE policy = "never" -> FALSE
    [] policy = "always" -> TRUE
    [] policy = "on-request" -> risk \in {"high", "medium"}
    [] OTHER -> risk = "high"

\* An ApprovalRequest (types 159-170) and the promise of its requestApproval:
\* wait is none before the call, waiting while the promise is open and
\* resolved after; timer tells whether its setTimeout is armed; result and
\* decidedFor are the ApprovalResult the caller received and the request the
\* decision was taken for; resolves counts the calls of resolve.
NewRequest(id, action, details, risk) ==
  [id |-> id, action |-> action, details |-> details, risk |-> risk,
   status |-> "pending", wait |-> "none",
   timer |-> FALSE, result |-> "none", decidedFor |-> 0, resolves |-> 0]

\* resolve(result) of the promise of request i: a promise keeps its first
\* result.
ResolvePromise(rs, i, result, for) ==
  [rs EXCEPT ![i] =
     [@ EXCEPT !.wait = "resolved",
               !.result = IF @ = "none" THEN result ELSE @,
               !.decidedFor = IF rs[i].result = "none" THEN for ELSE @,
               !.resolves = @ + 1]]

\* ApprovalRequest.details: a command or a path.
CommandDetails(cmd) == [command |-> cmd, path |-> ""]
PathDetails(path) == [command |-> <<>>, path |-> path]
NoDetails == [command |-> <<>>, path |-> ""]

\* The actions a request is created for, with their details.
RequestKinds ==
  {[action |-> "command_exec", details |-> CommandDetails(c)] :
     c \in {<<"git", "push">>, <<"rm", "tmp">>, <<"cat">>}}
  \cup {[action |-> "file_write", details |-> PathDetails(f)] :
          f \in {"config.json", "a.txt"}}

\* ApprovalManager.assessRisk (approval.ts 22-56): cmd.includes and
\* path.includes on the words of the command and on the file names.
assessRisk(action, details) ==
  CASE action \in {"git_push", "file_delete"} -> "high"
    [] action = "command_exec" ->
         IF Some(details.command, {"rm", "del", "format"}) THEN "high"
         ELSE IF Some(details.command, {"npm", "git", "pip"}) THEN "medium"
         ELSE "low"
    [] action = "file_write" ->
         IF details.path \in {".env", "config.json", "secret.txt"}
         THEN "medium" ELSE "low"
    [] OTHER -> "low"

\* createRequest (approval.ts 73-89): the id is the millisecond of creation.
CreateRequest(action, details) ==
  /\ UNCHANGED notApproval
  /\ Len(reqs) < MaxRequests
  /\ reqs' = Append(reqs, NewRequest(now, action, details,
                                     assessRisk(action, details)))
  /\ pendingApprovals' = [pendingApprovals EXCEPT ![now] = Len(reqs) + 1]
  /\ UNCHANGED <<apPolicy, now, approvalCallbacks, dispatched>>

\* A millisecond passes.
Tick ==
  /\ UNCHANGED notApproval
  /\ now < MaxClock
  /\ now' = now + 1
  /\ UNCHANGED <<apPolicy, reqs, pendingApprovals, approvalCallbacks,
                 dispatched>>

\* requestApproval (approval.ts 92-117), called once with each request.
RequestApproval(i) ==
  /\ UNCHANGED notApproval
  /\ i \in DOMAIN reqs
  /\ reqs[i].wait = "none"
  /\ IF reqs[i].risk = "low" /\ apPolicy # "always"
     THEN /\ reqs' = ResolvePromise([reqs EXCEPT ![i].status = "approved"],
                              i, "auto", i)
          /\ UNCHANGED approvalCallbacks
     ELSE /\ reqs' = [reqs EXCEPT ![i].wait = "waiting", ![i].timer = TRUE]
          /\ approvalCallbacks' =
               [approvalCallbacks EXCEPT ![reqs[i].id] = i]
  /\ UNCHANGED <<apPolicy, now, pendingApprovals, dispatched>>

\* approve(requestId) and reject(requestId) (approval.ts 120-143), called by
\* the user who decides on request i with the id shown for it. The callback
\* is that of requestApproval (approval.ts 109-114).
Decide(i, verdict) ==
  /\ UNCHANGED notApproval
  /\ i \in DOMAIN reqs
  /\ LET id == reqs[i].id
         request == pendingApprovals[id]
         callback == approvalCallbacks[id]
     IN  /\ request # 0
         /\ callback # 0
         /\ reqs' = ResolvePromise([[reqs EXCEPT ![request].status = verdict]
                                 EXCEPT ![callback].timer = FALSE],
                              callback, verdict, i)
         /\ approvalCallbacks' = [approvalCallbacks EXCEPT ![id] = 0]
         /\ pendingApprovals' = [pendingApprovals EXCEPT ![id] = 0]
  /\ UNCHANGED <<apPolicy, now, dispatched>>

\* The 60 seconds of request i have passed: its setTimeout callback runs
\* (approval.ts 103-107).
Timeout(i) ==
  /\ UNCHANGED notApproval
  /\ i \in DOMAIN reqs
  /\ reqs[i].timer
  /\ approvalCallbacks' = [approvalCallbacks EXCEPT ![reqs[i].id] = 0]
  /\ reqs' = ResolvePromise([[reqs EXCEPT ![i].status = "rejected"]
                          EXCEPT ![i].timer = FALSE],
                       i, "timeout", i)
  /\ UNCHANGED <<apPolicy, now, pendingApprovals, dispatched>>

\* getPending (approval.ts 146-148): the requests of the pendingApprovals
\* map.
getPending ==
  {pendingApprovals[id] : id \in {k \in RequestIds : pendingApprovals[k] # 0}}

\* The tool calls of the loop that have a side effect, as the actions of an
\* approval request.
ToolAction(tool) ==
  CASE tool = "exec_command" -> "command_exec"
    [] tool \in {"write_file", "edit_file"} -> "file_write"

NoCall ==
  [action |-> "none", details |-> NoDetails, risk |-> "low",
   effect |-> FALSE]

\* One tool call of a batch, from the loop to its side effect
\* (engine.ts 274-289, 360-374: the loop hands every call to
\* ToolRegistry.execute; registry.ts 74-117: execute runs the handler).
\* The path of a write is inside the workspace and not sensitive.
EngineDispatch(tool, details, sandbox) ==
  /\ UNCHANGED notApproval
  /\ dispatched = NoCall
  /\ [action |-> ToolAction(tool), details |-> details] \in RequestKinds
  /\ dispatched' =
       [action |-> ToolAction(tool), details |-> details,
        risk |-> assessRisk(ToolAction(tool), details),
        effect |->
          IF tool = "exec_command"
          THEN execCommandHandler(details.command, sandbox).spawned
          ELSE canWrite(sandbox)]
  /\ UNCHANGED <<apPolicy, now, reqs, pendingApprovals, approvalCallbacks>>

ApprovalStart ==
  /\ now = 0
  /\ reqs = <<>>
  /\ pendingApprovals = [id \in RequestIds |-> 0]
  /\ approvalCallbacks = [id \in RequestIds |-> 0]
  /\ dispatched = NoCall

ApprovalInit ==
  /\ apPolicy \in ApprovalPolicies
  /\ ApprovalStart

\* The initial values of the approval variables in the other specifications.
ApprovalIdle ==
  /\ apPolicy = "on-request"
  /\ ApprovalStart

NextApproval ==
  \/ \E k \in RequestKinds : CreateRequest(k.action, k.details)
  \/ Tick
  \/ \E i \in 1..MaxRequests : RequestApproval(i)
  \/ \E i \in 1..MaxRequests, verdict \in {"approved", "rejected"} :
       Decide(i, verdict)
  \/ \E i \in 1..MaxRequests : Timeout(i)
  \/ \E tool \in {"exec_command", "write_file", "edit_file"},
        k \in RequestKinds, sandbox \in SandboxPolicies :
       EngineDispatch(tool, k.details, sandbox)

\* ------------------------------------ handlers of one chat and the engine
\* The log grows by one message.
Grow(n) == IF n < MaxLogLen THEN n + 1 ELSE n

HandlersInit ==
  /\ hpc = [h \in Callers |-> "idle"]
  /\ hentry = [h \in Callers |-> "run"]
  /\ tStatus = "idle"
  /\ tLen = 0

\* /agent <task>: handleAgentTask calls engine.run (agent.ts 324-389), which
\* sets the status and adds the user message whatever the status is
\* (engine.ts 95-146).
AgentTask(h) ==
  /\ UNCHANGED notHandlers
  /\ hpc[h] = "idle"
  /\ hpc' = [hpc EXCEPT ![h] = "top"]
  /\ hentry' = [hentry EXCEPT ![h] = "run"]
  /\ tStatus' = "running"
  /\ tLen' = Grow(tLen)

\* /resume: handleResume reads the status and answers "already running"
\* when it is running (agent.ts 417-429); else it goes on.
ResumeCheck(h) ==
  /\ UNCHANGED notHandlers
  /\ hpc[h] = "idle"
  /\ tStatus # "running"
  /\ hpc' = [hpc EXCEPT ![h] = "checked"]
  /\ UNCHANGED <<hentry, tStatus, tLen>>

\* handleResume after its reply: engine.continue adds the message and sets
\* the status (agent.ts 431-435, engine.ts 419-433).
ResumeEnter(h) ==
  /\ UNCHANGED notHandlers
  /\ hpc[h] = "checked"
  /\ hpc' = [hpc EXCEPT ![h] = "top"]
  /\ hentry' = [hentry EXCEPT ![h] = "continue"]
  /\ tStatus' = "running"
  /\ tLen' = Grow(tLen)

\* The head of the loop of handler h: the next completion call
\* (engine.ts 180-216).
HandlerLoopTop(h) ==
  /\ UNCHANGED notHandlers
  /\ hpc[h] = "top"
  /\ hpc' = [hpc EXCEPT ![h] = "llm"]
  /\ UNCHANGED <<hentry, tStatus, tLen>>

\* A response with tool calls: the messages are added and the loop goes on
\* (engine.ts 263-322).
HandlerIteration(h) ==
  /\ UNCHANGED notHandlers
  /\ hpc[h] = "llm"
  /\ hpc' = [hpc EXCEPT ![h] = "top"]
  /\ tLen' = Grow(tLen)
  /\ UNCHANGED <<hentry, tStatus>>

\* The loop of handler h ends with a result: run and continue set the status
\* to idle (engine.ts 148, 249-260, 326-334, 435).
HandlerReturn(h) ==
  /\ UNCHANGED notHandlers
  /\ hpc[h] \in {"top", "llm"}
  /\ hpc' = [hpc EXCEPT ![h] = "idle"]
  /\ tStatus' = "idle"
  /\ tLen' = IF hpc[h] = "llm" THEN Grow(tLen) ELSE tLen
  /\ UNCHANGED hentry

\* The completion call of handler h fails: run sets the status to idle in
\* its catch block (engine.ts 152-154), continue lets the exception pass
\* (engine.ts 419-438).
HandlerLLMFails(h) ==
  /\ UNCHANGED notHandlers
  /\ hpc[h] = "llm"
  /\ hpc' = [hpc EXCEPT ![h] = "idle"]
  /\ tStatus' = IF hentry[h] = "run" THEN "idle" ELSE tStatus
  /\ UNCHANGED <<hentry, tLen>>

NextHandlers ==
  \E h \in Callers :
    \/ AgentTask(h)
    \/ ResumeCheck(h)
    \/ ResumeEnter(h)
    \/ HandlerLoopTop(h)
    \/ HandlerIteration(h)
    \/ HandlerReturn(h)
    \/ HandlerLLMFails(h)

\* ------------------------------------------------ policy.ts: the tool policy
\* Tool names and patterns are sequences of characters.
Letters == {"a", "b", "A"}
Blank == " "
PatternChars == Letters \cup {"*", "?"}

\* String.toLowerCase, character by character.
LowerChar(c) == IF c = "A" THEN "a" ELSE c
Lower(s) == [k \in DOMAIN s |-> LowerChar(s[k])]

\* String.trim: the blanks at both ends are dropped.
RECURSIVE TrimLeft(_)
TrimLeft(s) ==
  IF s # <<>> /\ Head(s) = Blank THEN TrimLeft(Tail(s)) ELSE s

RECURSIVE TrimRight(_)
TrimRight(s) ==
  IF s # <<>> /\ s[Len(s)] = Blank
  THEN TrimRight(SubSeq(s, 1, Len(s) - 1)) ELSE s

TrimText(s) == TrimRight(TrimLeft(s))

normalizeToolName(name) == Lower(TrimText(name))

\* compilePattern: "*" matches all; a pattern with * or ? is a glob, turned
\* into an anchored regular expression with flag i; any other an exact value.
compilePattern(pattern) ==
  LET normalized == TrimText(pattern)
  IN  IF normalized = <<"*">> THEN [kind |-> "all", value |-> <<>>]
      ELSE IF \E k \in DOMAIN normalized : normalized[k] \in {"*", "?"}
      THEN [kind |-> "glob", value |-> normalized]
      ELSE [kind |-> "exact", value |-> normalizeToolName(normalized)]

compilePatterns(patterns) ==
  [k \in DOMAIN patterns |-> compilePattern(patterns[k])]

\* RegExp.test of the regular expression made of a glob: * is .*, ? is ., any
\* other character itself without regard to case, the whole text matched.
RECURSIVE GlobTest(_, _)
GlobTest(glob, text) ==
  IF glob = <<>> THEN text = <<>>
  ELSE IF Head(glob) = "*"
  THEN \/ GlobTest(Tail(glob), text)
       \/ text # <<>> /\ GlobTest(glob, Tail(text))
  ELSE /\ text # <<>>
       /\ \/ Head(glob) = "?"
          \/ LowerChar(Head(glob)) = LowerChar(Head(text))
       /\ GlobTest(Tail(glob), Tail(text))

\* matchesAny: the patterns are tried in their order.
RECURSIVE matchesAny(_, _)
matchesAny(name, patterns) ==
  IF patterns = <<>> THEN FALSE
  ELSE LET pattern == Head(patterns)
       IN  IF pattern.kind = "all" THEN TRUE
           ELSE IF pattern.kind = "exact" /\ name = pattern.value THEN TRUE
           ELSE IF pattern.kind = "glob" /\ GlobTest(pattern.value, name)
           THEN TRUE
           ELSE matchesAny(name, Tail(patterns))

\* A matcher that tries the allow list first.
makeToolPolicyMatcherAllowFirst(policy, name) ==
  LET deny == compilePatterns(policy.deny)
      allow == compilePatterns(policy.allow)
      normalized == normalizeToolName(name)
  IN  IF Len(allow) > 0 /\ matchesAny(normalized, allow) THEN TRUE
      ELSE IF matchesAny(normalized, deny) THEN FALSE
      ELSE Len(allow) = 0

\* The function makeToolPolicyMatcher returns, applied to a name.
makeToolPolicyMatcher(policy, name) ==
  LET deny == compilePatterns(policy.deny)
      allow == compilePatterns(policy.allow)
      normalized == normalizeToolName(name)
  IN  IF matchesAny(normalized, deny) THEN FALSE
      ELSE IF Len(allow) = 0 THEN TRUE
      ELSE matchesAny(normalized, allow)

\* filterToolsByPolicy on the names of the tools.
filterToolsByPolicy(tools, policy) ==
  IF ~policy.isSet THEN tools
  ELSE {t \in tools : makeToolPolicyMatcher(policy, t)}

\* The texts of at most n characters of an alphabet.
Texts(alphabet, n) == UNION {[1..k -> alphabet] : k \in 1..n}

NameTexts == Texts(Letters, MaxNameLen)
PatternTexts == Texts(PatternChars, MaxPatternLen)

\* The pattern lists of a policy: none, one pattern, or two of a few patterns,
\* one of them with a blank at its end.
PairPatterns == {<<"*">>, <<"a">>, <<"a", "*">>, <<"b", Blank>>}
PatternLists ==
  {<<>>} \cup {<<p>> : p \in PatternTexts}
         \cup {<<p, q>> : p \in PairPatterns, q \in PairPatterns}

\* ToolPolicy (types.ts): allow and deny are optional; a missing list is
\* compiled as the empty list.
Policy(allow, deny) == [isSet |-> TRUE, allow |-> allow, deny |-> deny]
NoPolicy == [isSet |-> FALSE, allow |-> <<>>, deny |-> <<>>]
ToolPolicies == {Policy(a, d) : a \in PatternLists, d \in PatternLists}

MatcherIdle ==
  /\ mPolicy = NoPolicy
  /\ mName = <<>>
  /\ mAccepted = "none"

MatcherInit ==
  /\ mPolicy \in ToolPolicies
  /\ mName \in NameTexts
  /\ mAccepted = "none"

\* The matcher of the policy is called with the name.
MatchName ==
  /\ UNCHANGED notTools
  /\ UNCHANGED <<registryVars, schemaVars, gitVars, resultVars>>
  /\ mAccepted = "none"
  /\ mAccepted' = IF makeToolPolicyMatcher(mPolicy, mName) THEN "yes" ELSE "no"
  /\ UNCHANGED <<mPolicy, mName>>

NextMatcher == MatchName

\* ------------------------------------------------ registry.ts: ToolRegistry
\* The tools that can be registered and the policies that can be set.
RegistryNames == {<<"a">>, <<"b">>, <<"a", "b">>}
RegistryPatterns == {<<"*">>, <<"a">>, <<"a", "*">>, <<"b">>, <<"?">>}
RegistryLists == {<<>>} \cup {<<p>> : p \in RegistryPatterns}
RegistryPolicies == {Policy(a, d) : a \in RegistryLists, d \in RegistryLists}

\* The ids of the calls given to execute.
CallIds == 1..MaxCallId

\* The message of the SyntaxError JSON.parse throws on a malformed text.
JsonSyntaxError == "Unexpected token in JSON"

\* What a handler can do: return a success, return a failure with its error,
\* throw an Error with a message. A handler that parses JSON itself throws
\* the SyntaxError of JSON.parse.
HandlerBehaviours ==
  {[does |-> "returns", success |-> TRUE, error |-> ""],
   [does |-> "returns", success |-> FALSE, error |-> "denied"],
   [does |-> "throws", success |-> FALSE, error |-> "ENOENT"],
   [does |-> "throws", success |-> FALSE, error |-> JsonSyntaxError]}

\* An LLMToolCall: its id, the name of its function, whether its arguments
\* are a JSON text; cause is why it fails in execute, if it does, and thrown
\* the message of the error its handler throws, if it is called and throws.
ToolCall(id, name, parses, cause, thrown) ==
  [id |-> id, name |-> name, parses |-> parses, cause |-> cause,
   thrown |-> thrown]
NoToolCall == ToolCall(0, <<>>, TRUE, "none", "")

\* The error of a result: a text, and the tool name put in it.
ErrorText(text) == [text |-> text, name |-> <<>>]
NoError == ErrorText("")

\* A ToolResult, or the exception that left execute.
ToolResult(toolCallId, success, error) ==
  [kind |-> "returned", toolCallId |-> toolCallId, success |-> success,
   error |-> error]
NoToolResult ==
  [kind |-> "none", toolCallId |-> 0, success |-> FALSE, error |-> NoError]

\* The error text of an unknown tool (registry.ts 85).
UnknownTool(name) == [text |-> "Unknown tool: ", name |-> name]

\* ToolRegistry.execute (registry.ts 74-117): the result it returns for a
\* call, given what the handler of the tool does.
execute(id, name, parses, behaviour) ==
  IF name \notin registered
  THEN ToolResult(id, FALSE, UnknownTool(name))
  ELSE IF ~parses
  THEN ToolResult(id, FALSE, ErrorText(JsonSyntaxError))
  ELSE IF behaviour.does = "throws"
  THEN ToolResult(id, FALSE, ErrorText(behaviour.error))
  ELSE ToolResult(id, behaviour.success, ErrorText(behaviour.error))

\* Why a call fails in execute: the first of the causes that applies.
Cause(name, parses, behaviour) ==
  IF name \notin registered THEN "unknown tool"
  ELSE IF ~parses THEN "bad arguments"
  ELSE IF behaviour.does = "throws" THEN "handler threw"
  ELSE "none"

RegistryInit ==
  /\ registered = {}
  /\ toolPolicy = NoPolicy
  /\ schemaSet = {}
  /\ toolSummary = {}
  /\ regCall = NoToolCall
  /\ regResult = NoToolResult

\* ToolRegistry.register.
Register(name) ==
  /\ UNCHANGED notTools
  /\ UNCHANGED <<matchVars, schemaVars, gitVars, resultVars>>
  /\ name \notin registered
  /\ registered' = registered \cup {name}
  /\ UNCHANGED <<toolPolicy, schemaSet, toolSummary, regCall, regResult>>

\* ToolRegistry.setPolicy.
SetPolicy(policy) ==
  /\ UNCHANGED notTools
  /\ UNCHANGED <<matchVars, schemaVars, gitVars, resultVars>>
  /\ toolPolicy # policy
  /\ toolPolicy' = policy
  /\ UNCHANGED <<registered, schemaSet, toolSummary, regCall, regResult>>

\* ToolRegistry.getToolsForLLM, called for every completion call
\* (engine.ts 209-212).
getToolsForLLM ==
  /\ UNCHANGED notTools
  /\ UNCHANGED <<matchVars, schemaVars, gitVars, resultVars>>
  /\ schemaSet' = filterToolsByPolicy(registered, toolPolicy)
  /\ UNCHANGED <<registered, toolPolicy, toolSummary, regCall, regResult>>

\* ToolRegistry.getToolNames, called when run builds the system message of
\* the session (engine.ts 114-136).
getToolNames ==
  /\ UNCHANGED notTools
  /\ UNCHANGED <<matchVars, schemaVars, gitVars, resultVars>>
  /\ toolSummary' = registered
  /\ UNCHANGED <<registered, toolPolicy, schemaSet, regCall, regResult>>

\* ToolRegistry.execute on a call.
Execute(id, name, parses, behaviour) ==
  /\ UNCHANGED notTools
  /\ UNCHANGED <<matchVars, schemaVars, gitVars, resultVars>>
  /\ regCall' =
       LET cause == Cause(name, parses, behaviour)
       IN  ToolCall(id, name, parses, cause,
                    IF cause = "handler threw" THEN behaviour.error ELSE "")
  /\ regResult' = execute(id, name, parses, behaviour)
  /\ UNCHANGED <<registered, toolPolicy, schemaSet, toolSummary>>

NextExecute ==
  \/ \E name \in RegistryNames : Register(name)
  \/ \E id \in CallIds, name \in RegistryNames, parses \in BOOLEAN,
        behaviour \in HandlerBehaviours :
          Execute(id, name, parses, behaviour)

NextRegistry ==
  \/ \E name \in RegistryNames : Register(name)
  \/ \E policy \in RegistryPolicies : SetPolicy(policy)
  \/ getToolsForLLM
  \/ getToolNames

\* ------------------------------------- schema.ts: normalizeToolParameters
\* The names of the properties of the schemas; "examples" is also one of the
\* keywords of GEMINI_UNSUPPORTED_KEYS.
Fields == {"a", "b", "examples"}
GEMINI_UNSUPPORTED_KEYS ==
  {"$schema", "$id", "$ref", "$defs", "definitions", "examples", "const",
   "contentEncoding", "contentMediaType"}

\* The branches of a union: the properties of each and its required list,
\* which it may not declare; a required field is one of its properties.
Branches ==
  {b \in [properties : SUBSET Fields, hasRequired : BOOLEAN,
           required : SUBSET Fields] :
     /\ b.required \subseteq b.properties
     /\ b.hasRequired \/ b.required = {}}

\* A parameter schema with a union: whether it has a type and properties of
\* its own, the key of the union, and the branches.
UnionSchemas ==
  [hasType : BOOLEAN, hasProperties : BOOLEAN, key : {"anyOf", "oneOf"},
   variants : UNION {[1..n -> Branches] : n \in 1..MaxBranches}]

\* An object schema: flattened is FALSE when the union was left as it was.
ObjectSchema(flattened, properties, required) ==
  [flattened |-> flattened, properties |-> properties, required |-> required]
NoSchema == ObjectSchema(FALSE, {}, {})

\* The loop of flattenUnionSchema over the branches (schema.ts 71-90):
\* requiredSet after the branches from i on.
RECURSIVE RequiredAfter(_, _, _)
RequiredAfter(variants, i, requiredSet) ==
  IF i > Len(variants) THEN requiredSet
  ELSE LET variant == variants[i]
       IN  RequiredAfter(variants, i + 1,
             IF ~variant.hasRequired THEN requiredSet
             ELSE IF requiredSet = {} THEN variant.required
             ELSE requiredSet \cap variant.required)

\* flattenUnionSchema (schema.ts 58-98).
flattenUnionSchema(variants) ==
  ObjectSchema(TRUE,
               UNION {variants[i].properties : i \in DOMAIN variants},
               RequiredAfter(variants, 1, {}))

\* cleanSchemaForGemini on an object schema (schema.ts 27-53): the keys of
\* GEMINI_UNSUPPORTED_KEYS are dropped at every level, the level of the
\* property names included; the items of an array of strings are kept.
cleanSchemaForGemini(s) ==
  [s EXCEPT !.properties = s.properties \ GEMINI_UNSUPPORTED_KEYS]

\* normalizeToolParameters (schema.ts 103-145) on a schema with a union.
normalizeToolParameters(s) ==
  IF s.hasType /\ s.hasProperties /\ s.key # "anyOf" THEN NoSchema
  ELSE IF ~s.hasType /\ s.hasProperties THEN NoSchema
  ELSE cleanSchemaForGemini(flattenUnionSchema(s.variants))

SchemaIdle ==
  /\ schema = [hasType |-> FALSE, hasProperties |-> FALSE, key |-> "anyOf",
               variants |-> <<>>]
  /\ normalizedSchema = NoSchema

SchemaInit ==
  /\ schema \in UnionSchemas
  /\ normalizedSchema = NoSchema

\* normalizeToolParameters is called with the schema.
NormalizeSchema ==
  /\ UNCHANGED notTools
  /\ UNCHANGED <<matchVars, registryVars, gitVars, resultVars>>
  /\ normalizedSchema = NoSchema
  /\ normalizedSchema' = normalizeToolParameters(schema)
  /\ UNCHANGED schema

NextSchema == NormalizeSchema

\* ------------------------------------------ git.ts, git-enhanced.ts
SAFE_SUBCOMMANDS == {"status", "diff", "log", "blame", "branch", "show"}
WRITE_SUBCOMMANDS == {"add", "commit", "checkout", "stash"}

\* The subcommands a call can name; push is none of the allowed ones.
GitSubcommands == SAFE_SUBCOMMANDS \cup WRITE_SUBCOMMANDS \cup {"push"}

\* args.args: nothing, a name, or a text that ends the git command and
\* begins another command of the shell.
GitArgTexts == {<<>>, <<"x">>, <<";", "touch", "x">>}

GitOperations ==
  {"auto_branch", "auto_commit", "status_summary", "diff_summary", "other"}

\* What a git tool did: ran is the command given to the shell or to git.
GitResult(success, error, ran) ==
  [done |-> TRUE, success |-> success, error |-> error, ran |-> ran]
NoGitResult == [done |-> FALSE, success |-> FALSE, error |-> "", ran |-> <<>>]

\* The defaults gitHandler adds to a subcommand (git.ts 84-94).
GitDefaults(subcommand) ==
  CASE subcommand = "log" -> <<"--oneline", "-n", "20">>
    [] subcommand = "diff" -> <<"--stat">>
    [] subcommand = "status" -> <<"--short">>
    [] OTHER -> <<>>

\* gitHandler (git.ts 51-117): the command text is run by /bin/sh -c;
\* success is the exit code of the shell, taken as 0.
gitHandler(subcommand, extraArgs, policy) ==
  IF subcommand \notin SAFE_SUBCOMMANDS \cup WRITE_SUBCOMMANDS
  THEN GitResult(FALSE, "not allowed", <<>>)
  ELSE IF subcommand \in WRITE_SUBCOMMANDS /\ policy = "read-only"
  THEN GitResult(FALSE, "requires write access", <<>>)
  ELSE GitResult(TRUE, "",
                 <<"git", subcommand>> \o GitDefaults(subcommand)
                                      \o extraArgs)

\* gitEnhancedHandler (git-enhanced.ts 42-93): the operations run git
\* without a shell.
gitEnhancedHandler(operation, policy) ==
  IF ~canExecuteCommands(policy)
  THEN GitResult(FALSE, "not allowed in current sandbox policy", <<>>)
  ELSE IF operation = "other"
  THEN GitResult(FALSE, "unknown operation", <<>>)
  ELSE GitResult(TRUE, "", <<"git", operation>>)

\* What the command does once it runs: a write subcommand, an operation that
\* creates a branch or a commit, git branch with a name, and a command of
\* the shell after a semicolon change the workspace.
ChangesWorkspace(ran) ==
  /\ ran # <<>>
  /\ \/ ran[2] \in WRITE_SUBCOMMANDS \cup {"auto_branch", "auto_commit"}
     \/ ran[2] = "branch" /\ Len(ran) > 2 /\ ran[3] = "x"
     \/ \E k \in 1..(Len(ran) - 1) : ran[k] = ";" /\ ran[k + 1] = "touch"

GitIdle ==
  /\ gitTool = "git"
  /\ gitSub = "status"
  /\ gitArgs = <<>>
  /\ gitPolicy = "read-only"
  /\ gitResult = NoGitResult

GitInit ==
  /\ gitTool \in {"git", "git_enhanced"}
  /\ IF gitTool = "git"
     THEN gitSub \in GitSubcommands /\ gitArgs \in GitArgTexts
     ELSE gitSub \in GitOperations /\ gitArgs = <<>>
  /\ gitPolicy \in SandboxPolicies
  /\ gitResult = NoGitResult

\* ToolRegistry.execute calls the handler of the tool.
GitToolCall ==
  /\ UNCHANGED notTools
  /\ UNCHANGED <<matchVars, registryVars, schemaVars, resultVars>>
  /\ ~gitResult.done
  /\ gitResult' = IF gitTool = "git"
                  THEN gitHandler(gitSub, gitArgs, gitPolicy)
                  ELSE gitEnhancedHandler(gitSub, gitPolicy)
  /\ UNCHANGED <<gitTool, gitSub, gitArgs, gitPolicy>>

NextGit == GitToolCall

\* ------------------------------------ AgentEngine: the result of a run
\* The loop of run with one tool call in every response that has tool calls,
\* and the three lists reactLoop keeps for the result.
NoTokens == [input |-> 0, output |-> 0]

\* The usage a completion response reports, when it reports one.
Usage == [input |-> 2, output |-> 1]

\* The paths write_file and edit_file are called with.
WrittenPaths == {"f", "g"}

\* An AgentRunResult: success, toolCalls, tokensUsed and modifiedFiles.
RunResult(success, toolCalls, tokensUsed, files) ==
  [returned |-> TRUE, success |-> success, toolCalls |-> toolCalls,
   tokensUsed |-> tokensUsed, modifiedFiles |-> files]
NoRunResult ==
  [returned |-> FALSE, success |-> FALSE, toolCalls |-> <<>>,
   tokensUsed |-> NoTokens, modifiedFiles |-> {}]

\* [...new Set(modifiedFiles)] (engine.ts 258, 333).
Distinct(files) == {f \in WrittenPaths : files[f] > 0}

ResultInit ==
  /\ rpc = "idle"
  /\ rIteration = 0
  /\ rErrors = 0
  /\ rCall = "none"
  /\ allToolCalls = <<>>
  /\ totalTokens = NoTokens
  /\ modifiedFiles = [f \in WrittenPaths |-> 0]
  /\ rResult = NoRunResult

\* run up to the first completion call (engine.ts 95-146, 173-181).
ResultRun ==
  /\ UNCHANGED notTools
  /\ UNCHANGED <<matchVars, registryVars, schemaVars, gitVars>>
  /\ rpc = "idle"
  /\ ~rResult.returned
  /\ rpc' = "llm"
  /\ rIteration' = 1
  /\ UNCHANGED <<rErrors, rCall, allToolCalls, totalTokens, modifiedFiles,
                 rResult>>

\* The tokens after a response (engine.ts 214-219).
Tracked(reports) ==
  IF reports
  THEN [input |-> totalTokens.input + Usage.input,
        output |-> totalTokens.output + Usage.output]
  ELSE totalTokens

\* A response without tool calls (engine.ts 249-260).
ResultFinal(reports) ==
  /\ UNCHANGED notTools
  /\ UNCHANGED <<matchVars, registryVars, schemaVars, gitVars>>
  /\ rpc = "llm"
  /\ rpc' = "done"
  /\ totalTokens' = Tracked(reports)
  /\ rResult' = RunResult(TRUE, allToolCalls, totalTokens',
                          Distinct(modifiedFiles))
  /\ UNCHANGED <<rIteration, rErrors, rCall, allToolCalls, modifiedFiles>>

\* A response with a tool call (engine.ts 214-219, 262-289, 366): the call
\* is put in allToolCalls before it is executed.
ResultToolCall(reports, tool) ==
  /\ UNCHANGED notTools
  /\ UNCHANGED <<matchVars, registryVars, schemaVars, gitVars>>
  /\ rpc = "llm"
  /\ rpc' = "tools"
  /\ totalTokens' = Tracked(reports)
  /\ rCall' = tool
  /\ allToolCalls' = Append(allToolCalls, rIteration)
  /\ UNCHANGED <<rIteration, rErrors, modifiedFiles, rResult>>

\* The call ends (engine.ts 368-410, 291-322) and the head of the loop is
\* passed (180-188): a successful write_file or edit_file has its path put
\* in modifiedFiles.
ResultToolEnds(ok, path) ==
  /\ UNCHANGED notTools
  /\ UNCHANGED <<matchVars, registryVars, schemaVars, gitVars>>
  /\ rpc = "tools"
  /\ modifiedFiles' =
       IF ok /\ rCall \in {"write_file", "edit_file"}
       THEN [modifiedFiles EXCEPT ![path] = @ + 1]
       ELSE modifiedFiles
  /\ rCall' = "none"
  /\ LET errors == IF ok THEN 0 ELSE rErrors + 1
     IN  /\ rErrors' = errors
         /\ IF rIteration >= MAX_ITERATIONS
            THEN /\ rpc' = "done"
                 /\ rResult' = RunResult(FALSE, allToolCalls, totalTokens,
                                         Distinct(modifiedFiles'))
                 /\ UNCHANGED rIteration
            ELSE /\ rIteration' = rIteration + 1
                 /\ IF errors >= MAX_CONSECUTIVE_ERRORS
                    THEN /\ rpc' = "done"
                         /\ rResult' =
                              RunResult(rIteration' < MAX_ITERATIONS,
                                        allToolCalls, totalTokens,
                                        Distinct(modifiedFiles'))
                    ELSE /\ rpc' = "llm"
                         /\ UNCHANGED rResult
  /\ UNCHANGED <<allToolCalls, totalTokens>>

\* llm.complete rejects (engine.ts 209) and run's catch block makes the
\* result (152-168).
ResultLLMFails ==
  /\ UNCHANGED notTools
  /\ UNCHANGED <<matchVars, registryVars, schemaVars, gitVars>>
  /\ rpc = "llm"
  /\ rpc' = "done"
  /\ rResult' = RunResult(FALSE, <<>>, NoTokens, {})
  /\ UNCHANGED <<rIteration, rErrors, rCall, allToolCalls, totalTokens,
                 modifiedFiles>>

NextResult ==
  \/ ResultRun
  \/ \E reports \in BOOLEAN : ResultFinal(reports)
  \/ \E reports \in BOOLEAN, tool \in {"read_file", "write_file"} :
       ResultToolCall(reports, tool)
  \/ \E ok \in BOOLEAN, path \in WrittenPaths : ResultToolEnds(ok, path)
  \/ ResultLLMFails

\* ------------------------------------- ThreadManager: several sessions
Chats == {"a", "b"}
SessionIds == 1..MaxSessions

\* ThreadManager.create (thread.ts 38-48) for the id generateId gave.
Thread(id, chat) ==
  [kind |-> "thread", msgs |-> 0, status |-> "idle", tokens |-> 0,
   identity |-> Identity(id, chat, "user", "workspace")]

\* One file for the sessions of every chat.
FilePathShared(id) == 1

\* path.join(sessionsDir, `${thread.id}.json`) (thread.ts 95, 114, 202).
FilePath(id) == id

\* id: the session the call is about; a call that returned leaves NoJob.
Job(op, phase, id, chat, snap) ==
  [op |-> op, phase |-> phase, id |-> id, chat |-> chat, snap |-> snap]
NoJob == Job("none", "none", 0, "", EmptyFile)

SessionsInit ==
  /\ threads = [i \in SessionIds |-> Lost]
  /\ sessionFiles = [i \in SessionIds |-> EmptyFile]
  /\ job = [c \in Callers |-> NoJob]
  /\ nextId = 1
  /\ sessionOps = 0
  /\ boots = 0

\* The threads of the map with the chat id (thread.ts 60-64).
Cached(chat) ==
  {i \in SessionIds :
     threads[i].kind = "thread" /\ threads[i].identity.chatId = chat}

\* The files that load as a thread with the chat id (thread.ts 67-76).
Stored(chat) ==
  {i \in SessionIds :
     /\ Load(sessionFiles[i]).kind = "thread"
     /\ Load(sessionFiles[i]).identity.chatId = chat}

\* getOrCreate up to its first await (thread.ts 58-67): the thread of the
\* map with the chat id is returned, the first in the order of the map.
GetOrCreateBegin(c, chat) ==
  /\ UNCHANGED notSessions
  /\ job[c].phase = "none"
  /\ sessionOps < MaxSessionOps
  /\ sessionOps' = sessionOps + 1
  /\ IF Cached(chat) # {}
     THEN UNCHANGED job
     ELSE job' = [job EXCEPT ![c] =
                    Job("getOrCreate", "disk", 0, chat, EmptyFile)]
  /\ UNCHANGED <<threads, sessionFiles, nextId, boots>>

\* getOrCreate after readdir and the loads (thread.ts 67-79): a file with
\* the chat id is put in the map and returned; without one create makes a
\* thread, puts it in the map and hands its text to fs.writeFile (33-51).
GetOrCreateDisk(c) ==
  /\ UNCHANGED notSessions
  /\ job[c].phase = "disk"
  /\ IF Stored(job[c].chat) # {}
     THEN /\ \E i \in Stored(job[c].chat) :
               /\ threads' = [threads EXCEPT ![i] = Load(sessionFiles[i])]
               /\ job' = [job EXCEPT ![c] = NoJob]
          /\ UNCHANGED nextId
     ELSE /\ nextId \in SessionIds
          /\ threads' = [threads EXCEPT ![nextId] = Thread(nextId, job[c].chat)]
          /\ job' = [job EXCEPT ![c] =
                       Job("getOrCreate", "queued", nextId, job[c].chat,
                           Serialize(threads'[nextId]))]
          /\ nextId' = nextId + 1
  /\ UNCHANGED <<sessionFiles, sessionOps, boots>>

\* addMessage, updateStatus, addTokenUsage or reset on the session id up to
\* its await of save() (thread.ts 138-163, 167-180, 183-196, 221-227): get
\* takes the thread from the map, or from its file (83-91).
SessionOp(c, id, op) ==
  /\ UNCHANGED notSessions
  /\ job[c].phase = "none"
  /\ sessionOps < MaxSessionOps
  /\ sessionOps' = sessionOps + 1
  /\ LET thread == IF threads[id].kind = "thread" THEN threads[id]
                   ELSE Load(sessionFiles[FilePath(id)])
     IN  /\ thread.kind = "thread"
         /\ threads' = [threads EXCEPT ![id] = Mutate(op, thread)]
         /\ job' = [job EXCEPT ![c] =
                      Job(op, "queued", id, thread.identity.chatId,
                          Serialize(threads'[id]))]
  /\ UNCHANGED <<sessionFiles, nextId, boots>>

\* save() writes the file of the thread and the call returns (thread.ts
\* 94-110).
SessionSave(c) ==
  /\ UNCHANGED notSessions
  /\ job[c].phase = "queued"
  /\ sessionFiles' =
       [sessionFiles EXCEPT ![FilePath(job[c].id)] = job[c].snap]
  /\ job' = [job EXCEPT ![c] = NoJob]
  /\ UNCHANGED <<threads, nextId, sessionOps, boots>>

\* The process is killed and started again: the map is empty and the calls
\* in flight are gone (thread.ts 14).
SessionsRestart ==
  /\ UNCHANGED notSessions
  /\ boots < MaxBoots
  /\ boots' = boots + 1
  /\ threads' = [i \in SessionIds |-> Lost]
  /\ job' = [c \in Callers |-> NoJob]
  /\ UNCHANGED <<sessionFiles, nextId, sessionOps>>

NextSessions ==
  \/ \E c \in Callers, chat \in Chats : GetOrCreateBegin(c, chat)
  \/ \E c \in Callers : GetOrCreateDisk(c)
  \/ \E c \in Callers, id \in SessionIds, op \in StoreOps :
       SessionOp(c, id, op)
  \/ \E c \in Callers : SessionSave(c)
  \/ SessionsRestart

\* ------------------------------------------ approval.ts: needsApproval
NoAnswer == [asked |-> FALSE, answer |-> FALSE]

NeedsInit == needed = [i \in 1..MaxRequests |-> NoAnswer]

\* needsApproval with the risk of request i (approval.ts 59-70); the policy
\* is config.approvalPolicy.
NeedsApproval(i) ==
  /\ UNCHANGED notNeeds
  /\ i \in DOMAIN reqs
  /\ ~needed[i].asked
  /\ needed' = [needed EXCEPT ![i] =
                  [asked |-> TRUE,
                   answer |-> needsApproval(apPolicy, reqs[i].risk)]]

NextNeedsApproval ==
  \/ \E k \in RequestKinds : CreateRequest(k.action, k.details)
  \/ Tick
  \/ \E i \in 1..MaxRequests : NeedsApproval(i)

\* -------------------------------------------- exec.ts: executeCommand
ProcResult(ended, success, error) ==
  [ended |-> ended, success |-> success, error |-> error]
NoProcResult == ProcResult(FALSE, FALSE, "none")

ProcInit ==
  /\ procTimeout = 0
  /\ procLength = 0
  /\ procClock = 0
  /\ procState = "idle"
  /\ procResult = NoProcResult

\* (args.timeout as number) || 30000 (exec.ts 38).
TimeoutOf(timeout) == IF timeout = 0 THEN DefaultTimeout ELSE timeout

\* execCommandHandler calls executeCommand, which spawns the shell and
\* arms the timer (exec.ts 84-89, 123-133, 159-162).
ProcSpawn(timeout, length) ==
  /\ UNCHANGED notProc
  /\ procState = "idle"
  /\ procState' = "running"
  /\ procTimeout' = timeout
  /\ procLength' = length
  /\ UNCHANGED <<procClock, procResult>>

\* Ten seconds pass with the command running.
ProcTick ==
  /\ UNCHANGED notProc
  /\ procState = "running"
  /\ procClock < procLength
  /\ procClock < TimeoutOf(procTimeout)
  /\ procClock' = procClock + 1
  /\ UNCHANGED <<procTimeout, procLength, procState, procResult>>

\* The command ends by itself: close resolves the promise and the handler
\* returns by the exit code (exec.ts 150-156, 91-101).
ProcClose(code) ==
  /\ UNCHANGED notProc
  /\ procState = "running"
  /\ procClock = procLength
  /\ procState' = "ended"
  /\ procResult' = ProcResult(TRUE, code = 0,
                              IF code = 0 THEN "none" ELSE "exit code")
  /\ UNCHANGED <<procTimeout, procLength, procClock>>

\* The timer fires: the process is killed, the promise rejected and the
\* handler returns the failure (exec.ts 159-162, 102-109).
ProcTimesOut ==
  /\ UNCHANGED notProc
  /\ procState = "running"
  /\ procClock = TimeoutOf(procTimeout)
  /\ procState' = "ended"
  /\ procResult' = ProcResult(TRUE, FALSE, "timed out")
  /\ UNCHANGED <<procTimeout, procLength, procClock>>

NextExecuteCommand ==
  \/ \E timeout \in 0..MaxTimeout, length \in 0..(MaxTimeout + 1) :
       ProcSpawn(timeout, length)
  \/ ProcTick
  \/ \E code \in {0, 1} : ProcClose(code)
  \/ ProcTimesOut

\* ---------------------------------------------- policy.ts: mergePolicies
\* [...new Set(list)]: the list without the later copies of its elements.
RECURSIVE SetOrder(_)
SetOrder(list) ==
  IF list = <<>> THEN <<>>
  ELSE LET front == SetOrder(SubSeq(list, 1, Len(list) - 1))
           last == list[Len(list)]
       IN  IF \E k \in DOMAIN front : front[k] = last THEN front
           ELSE Append(front, last)

\* mergePolicies (policy.ts 144-163) on the policies of a list: an undefined
\* policy is passed over, the deny lists and the allow lists are appended,
\* and an empty list is given as undefined.
RECURSIVE Appended(_, _)
Appended(policies, field) ==
  IF policies = <<>> THEN <<>>
  ELSE (IF Head(policies).isSet THEN Head(policies)[field] ELSE <<>>)
         \o Appended(Tail(policies), field)

mergePolicies(policies) ==
  Policy(SetOrder(Appended(policies, "allow")),
         SetOrder(Appended(policies, "deny")))

MergeInit ==
  /\ mgPolicies = <<>>
  /\ mgName = <<>>
  /\ mgMerged = NoPolicy
  /\ mgAccepted = "none"

\* mergePolicies is called with two policies, each one set or undefined.
MergePolicies(first, second, name) ==
  /\ mgPolicies = <<>>
  /\ UNCHANGED notMerge
  /\ mgPolicies' = <<first, second>>
  /\ mgName' = name
  /\ mgMerged' = mergePolicies(mgPolicies')
  /\ UNCHANGED mgAccepted

\* The matcher of the merged policy is called with the name.
MatchMerged ==
  /\ UNCHANGED notMerge
  /\ mgPolicies # <<>>
  /\ mgAccepted = "none"
  /\ mgAccepted' =
       IF makeToolPolicyMatcher(mgMerged, mgName) THEN "yes" ELSE "no"
  /\ UNCHANGED <<mgPolicies, mgName, mgMerged>>

NextMerge ==
  \/ \E first, second \in RegistryPolicies \cup {NoPolicy},
        name \in RegistryNames :
       MergePolicies(first, second, name)
  \/ MatchMerged

\* ------------------------------- file-edit.ts: the backup before a write
\* found: the search text of edit_file is in the file; all: args.all of
\* edit_file; alters: the content the call writes differs from the content
\* of the file.
FileCall(tool, mode, found, all, alters) ==
  [tool |-> tool, mode |-> mode, found |-> found, all |-> all,
   alters |-> alters]
NoFileCall == FileCall("none", "overwrite", FALSE, FALSE, FALSE)

FileCalls ==
  {FileCall("write_file", mode, FALSE, FALSE, alters) :
     mode \in {"overwrite", "append", "create"}, alters \in BOOLEAN}
  \cup {FileCall("edit_file", "overwrite", found, all, alters) :
          found \in BOOLEAN, all \in BOOLEAN, alters \in BOOLEAN}

FileState(exists, changed) == [exists |-> exists, changed |-> changed]

BackupInit ==
  /\ bkCall = NoFileCall
  /\ bkPc = "idle"
  /\ bkFile = FileState(FALSE, FALSE)
  /\ bkBackup = FALSE
  /\ bkResult = "none"

\* The handler is called and has passed canWrite, validatePath and
\* validateWriteExtension (file-edit.ts 51-74, 326-360).
FileCallStart(call, exists) ==
  /\ bkPc = "idle"
  /\ bkResult = "none"
  /\ UNCHANGED notBackup
  /\ bkCall' = call
  /\ bkPc' = "read"
  /\ bkFile' = FileState(exists, FALSE)
  /\ UNCHANGED <<bkBackup, bkResult>>

\* The file is read. edit_file ends when the file or the search text is
\* missing (file-edit.ts 77-91, 130-137); write_file ends in mode create on
\* a file that exists, and goes to the backup only in mode overwrite on a
\* file that exists (367-388).
FileRead ==
  /\ bkPc = "read"
  /\ UNCHANGED notBackup
  /\ LET ends ==
           IF bkCall.tool = "edit_file"
           THEN ~bkFile.exists \/ ~bkCall.found
           ELSE bkCall.mode = "create" /\ bkFile.exists
         backs ==
           IF bkCall.tool = "edit_file" THEN TRUE
           ELSE bkFile.exists /\ bkCall.mode = "overwrite"
     IN  /\ bkPc' = IF ends THEN "done" ELSE IF backs THEN "backup" ELSE "write"
         /\ bkResult' = IF ends THEN "no" ELSE bkResult
  /\ UNCHANGED <<bkCall, bkFile, bkBackup>>

\* BackupManager.createBackup (diff.ts 68-90): the backup is written; or an
\* error other than ENOENT is thrown and the handler's catch block returns
\* the failure (file-edit.ts 129-144, 421-428); or the file is gone in the
\* meantime and null is returned.
CreateBackup(ending) ==
  /\ bkPc = "backup"
  /\ UNCHANGED notBackup
  /\ CASE ending = "written" ->
            /\ bkBackup' = TRUE
            /\ bkPc' = "write"
            /\ UNCHANGED <<bkFile, bkResult>>
       [] ending = "throws" ->
            /\ bkPc' = "done"
            /\ bkResult' = "no"
            /\ UNCHANGED <<bkFile, bkBackup>>
       [] ending = "gone" ->
            /\ bkFile' = FileState(FALSE, FALSE)
            /\ bkPc' = "write"
            /\ UNCHANGED <<bkBackup, bkResult>>
  /\ UNCHANGED bkCall

\* fs.writeFile of the new content (file-edit.ts 118, 400): it writes and
\* the handler returns success, or it throws and the catch block returns
\* the failure.
FileWrite(ok) ==
  /\ bkPc = "write"
  /\ UNCHANGED notBackup
  /\ bkPc' = "done"
  /\ bkFile' = IF ok THEN FileState(bkFile.exists, bkCall.alters) ELSE bkFile
  /\ bkResult' = IF ok THEN "yes" ELSE "no"
  /\ UNCHANGED <<bkCall, bkBackup>>

NextBackup ==
  \/ \E call \in FileCalls, exists \in BOOLEAN : FileCallStart(call, exists)
  \/ FileRead
  \/ \E ending \in {"written", "throws", "gone"} : CreateBackup(ending)
  \/ \E ok \in BOOLEAN : FileWrite(ok)

\* ------------------------------------ ws-manager.ts: CustomWebSocketManager
WsInit ==
  /\ wsConfig \in {"ok", "noToken", "badUrl"}
  /\ shouldReconnect = TRUE
  /\ reconnectAttempts = 0
  /\ sockets = 0
  /\ timers = 0
  /\ opened = 0
  /\ stopped = FALSE
  /\ lastClose = "none"
  /\ lastTimer = "none"

WsIdle ==
  /\ wsConfig = "ok"
  /\ shouldReconnect = TRUE
  /\ reconnectAttempts = 0
  /\ sockets = 0
  /\ timers = 0
  /\ opened = 0
  /\ stopped = FALSE
  /\ lastClose = "none"
  /\ lastTimer = "none"

\* An attemptConnection that does not look at shouldReconnect.
attemptConnectionUnguarded(should) == TRUE

\* attemptConnection goes on to open a socket (ws-manager.ts 50).
attemptConnection(should) == should

\* attemptConnection (ws-manager.ts 49-74): nothing when shouldReconnect is
\* false; else a socket is opened, or its constructor throws and
\* scheduleReconnect arms a timer (169-198).
Attempt(should, throws) ==
  IF ~attemptConnection(should)
  THEN UNCHANGED <<sockets, opened, timers>>
  ELSE IF throws
       THEN /\ timers' = timers + 1
            /\ UNCHANGED <<sockets, opened>>
       ELSE /\ sockets' = sockets + 1
            /\ opened' = opened + 1
            /\ UNCHANGED timers

\* connect() (ws-manager.ts 28-47): it throws on a missing token or url and
\* on a malformed url; else it sets shouldReconnect and attempts.
Connect(throws) ==
  /\ opened + timers < MaxSockets
  /\ UNCHANGED notWs
  /\ IF wsConfig # "ok"
     THEN /\ stopped' = TRUE
          /\ UNCHANGED <<shouldReconnect, sockets, opened, timers>>
     ELSE /\ shouldReconnect' = TRUE
          /\ stopped' = FALSE
          /\ Attempt(TRUE, throws)
  /\ UNCHANGED <<wsConfig, reconnectAttempts, lastClose, lastTimer>>

\* The close codes, and the reasons as the set of the words auth and token
\* that the lower-cased reason includes.
CloseCodes == {1000, 1006, 4001, 4003}
CloseReasons == SUBSET {"auth", "token"}

\* The fail-fast test of handleClose (ws-manager.ts 138-144).
AuthFailure(code, reason) ==
  \/ code = 4001
  \/ code = 4003
  \/ "auth" \in reason
  \/ "token" \in reason

\* A socket closes and handleClose runs (ws-manager.ts 66-68, 126-163).
HandleClose(code, reason) ==
  /\ sockets > 0
  /\ UNCHANGED notWs
  /\ sockets' = sockets - 1
  /\ lastClose' = IF AuthFailure(code, reason) THEN "auth" ELSE "other"
  /\ IF AuthFailure(code, reason)
     THEN /\ shouldReconnect' = FALSE
          /\ stopped' = TRUE
          /\ UNCHANGED timers
     ELSE /\ timers' = IF shouldReconnect THEN timers + 1 ELSE timers
          /\ UNCHANGED <<shouldReconnect, stopped>>
  /\ UNCHANGED <<wsConfig, reconnectAttempts, opened, lastTimer>>

\* A reconnect timer fires (ws-manager.ts 194-197).
ReconnectTimer(throws) ==
  /\ timers > 0
  /\ opened < MaxSockets
  /\ reconnectAttempts < MaxSockets
  /\ UNCHANGED notWs
  /\ reconnectAttempts' = reconnectAttempts + 1
  /\ LET goes == attemptConnection(shouldReconnect)
     IN  /\ lastTimer' = IF goes /\ ~throws THEN "opened" ELSE "skipped"
         /\ sockets' = IF goes /\ ~throws THEN sockets + 1 ELSE sockets
         /\ opened' = IF goes /\ ~throws THEN opened + 1 ELSE opened
         /\ timers' = IF goes /\ throws THEN timers ELSE timers - 1
  /\ UNCHANGED <<wsConfig, shouldReconnect, stopped, lastClose>>

\* stop() (ws-manager.ts 217-226): the socket it closes tells its close
\* later.
Stop ==
  /\ ~stopped
  /\ UNCHANGED notWs
  /\ shouldReconnect' = FALSE
  /\ stopped' = TRUE
  /\ UNCHANGED <<wsConfig, reconnectAttempts, sockets, timers, opened,
                 lastClose, lastTimer>>

NextWebSocket ==
  \/ \E throws \in BOOLEAN : Connect(throws)
  \/ \E code \in CloseCodes, reason \in CloseReasons : HandleClose(code, reason)
  \/ \E throws \in BOOLEAN : ReconnectTimer(throws)
  \/ Stop

AuxRest ==
  /\ SessionsInit
  /\ NeedsInit
  /\ ProcInit
  /\ MergeInit
  /\ BackupInit

AuxIdle ==
  /\ AuxRest
  /\ WsIdle

ToolsIdle ==
  /\ MatcherIdle
  /\ RegistryInit
  /\ SchemaIdle
  /\ GitIdle
  /\ ResultInit

Init ==
  /\ EngineInit
  /\ StoreInit
  /\ CommandIdle
  /\ PathIdle
  /\ ApprovalIdle
  /\ HandlersInit
  /\ AuxIdle
  /\ ToolsIdle

\* The engine on one session, a batch of tool calls taken as one step.
Next ==
  \/ Run
  \/ Resume
  \/ LoopTop
  \/ LoopExit
  \/ LLMFails
  \/ LLMFinal
  \/ LLMTools
  \/ ExecuteTools
  \/ ToolEmitFails

Spec == Init /\ [][Next]_vars

\* The first call on a fresh engine.
FirstRun ==
  /\ runs = 0
  /\ Run

FirstResume ==
  /\ runs = 0
  /\ Resume

\* One run, the tasks of a batch taken one step each.
NextDispatch ==
  \/ FirstRun
  \/ LoopTop
  \/ LoopExit
  \/ LLMFails
  \/ LLMFinal
  \/ LLMTools
  \/ \E i \in 1..MaxBatch : ToolStart(i)
  \/ \E i \in 1..MaxBatch : ToolFinish(i)
  \/ ToolEmitFails
  \/ PersistResults

SpecDispatch == Init /\ [][NextDispatch]_vars

\* One run or continue, and the /cancel command arriving at any moment of it.
NextCancel ==
  \/ FirstRun
  \/ FirstResume
  \/ LoopTop
  \/ LoopExit
  \/ LLMFails
  \/ LLMFinal
  \/ LLMTools
  \/ ExecuteTools
  \/ ToolEmitFails
  \/ HandleCancel

SpecCancel == Init /\ [][NextCancel]_vars

\* A call of run or continue on the session of a run that the failure of the
\* completion service ended.
FailedRun ==
  /\ pc = "idle"
  /\ entry = "run"
  /\ outcome.via = "llm"

RunAfterFailure ==
  /\ FailedRun
  /\ runs <= MaxRuns
  /\ RunCall

ResumeAfterFailure ==
  /\ FailedRun
  /\ runs <= MaxRuns
  /\ ResumeCall

\* One run, and the calls that follow a failure of the completion service.
NextRecover ==
  \/ FirstRun
  \/ LoopTop
  \/ LoopExit
  \/ LLMFails
  \/ LLMFinal
  \/ LLMTools
  \/ ExecuteTools
  \/ ToolEmitFails
  \/ RunAfterFailure
  \/ ResumeAfterFailure

SpecRecover == Init /\ [][NextRecover]_vars

\* Operations of ThreadManager on one session, from two handlers that may
\* overlap, and a restart of the process.
SpecStore == Init /\ [][NextStore]_vars

\* validateCommand and execCommandHandler on every command and policy.
InitCommand ==
  /\ EngineInit
  /\ StoreInit
  /\ CommandInit
  /\ PathIdle
  /\ ApprovalIdle
  /\ HandlersInit
  /\ AuxIdle
  /\ ToolsIdle

SpecCommand == InitCommand /\ [][NextCommand]_vars

\* validatePath on every path and policy.
InitPath ==
  /\ EngineInit
  /\ StoreInit
  /\ CommandIdle
  /\ PathInit
  /\ ApprovalIdle
  /\ HandlersInit
  /\ AuxIdle
  /\ ToolsIdle

SpecPath == InitPath /\ [][NextPath]_vars

\* The ApprovalManager used by callers that create a request, wait for it
\* with requestApproval, and a user who approves or rejects.
InitApproval ==
  /\ EngineInit
  /\ StoreInit
  /\ CommandIdle
  /\ PathIdle
  /\ ApprovalInit
  /\ HandlersInit
  /\ AuxIdle
  /\ ToolsIdle

SpecApproval == InitApproval /\ [][NextApproval]_vars

\* The policy matcher on every policy and name.
InitMatcher ==
  /\ EngineInit
  /\ StoreInit
  /\ CommandIdle
  /\ PathIdle
  /\ ApprovalIdle
  /\ HandlersInit
  /\ AuxIdle
  /\ MatcherInit
  /\ RegistryInit
  /\ SchemaIdle
  /\ GitIdle
  /\ ResultInit

SpecMatcher == InitMatcher /\ [][NextMatcher]_vars

\* normalizeToolParameters on every schema with a union.
InitSchema ==
  /\ EngineInit
  /\ StoreInit
  /\ CommandIdle
  /\ PathIdle
  /\ ApprovalIdle
  /\ HandlersInit
  /\ AuxIdle
  /\ MatcherIdle
  /\ RegistryInit
  /\ SchemaInit
  /\ GitIdle
  /\ ResultInit

SpecSchema == InitSchema /\ [][NextSchema]_vars

\* The git tools on every call and policy.
InitGit ==
  /\ EngineInit
  /\ StoreInit
  /\ CommandIdle
  /\ PathIdle
  /\ ApprovalIdle
  /\ HandlersInit
  /\ AuxIdle
  /\ MatcherIdle
  /\ RegistryInit
  /\ SchemaIdle
  /\ GitInit
  /\ ResultInit

SpecGit == InitGit /\ [][NextGit]_vars

\* One run and its result record.
SpecResult == Init /\ [][NextResult]_vars

\* One execution of a command under every timeout and every running time.
SpecExecuteCommand == Init /\ [][NextExecuteCommand]_vars

\* The CustomWebSocketManager with every configuration.
InitWebSocket ==
  /\ EngineInit
  /\ StoreInit
  /\ CommandIdle
  /\ PathIdle
  /\ ApprovalIdle
  /\ HandlersInit
  /\ AuxRest
  /\ WsInit
  /\ ToolsIdle

SpecWebSocket == InitWebSocket /\ [][NextWebSocket]_vars

\* One write_file or edit_file call and its backup.
SpecBackup == Init /\ [][NextBackup]_vars

\* mergePolicies on every pair of policies and the merged matcher.
SpecMerge == Init /\ [][NextMerge]_vars

\* needsApproval on the requests created under every approval policy.
SpecNeedsApproval == InitApproval /\ [][NextNeedsApproval]_vars

\* The ThreadManager calls of two callers on the sessions of two chats.
SpecSessions == Init /\ [][NextSessions]_vars

\* The registry: tools are registered, a policy is set, the engine asks for
\* the schema set and for the tool names.
SpecRegistry == Init /\ [][NextRegistry]_vars

\* The registry: tools are registered and calls are executed.
SpecExecute == Init /\ [][NextExecute]_vars

\* The handlers of two updates of one chat.
SpecHandlers == Init /\ [][NextHandlers]_vars

\* The same with the timers of the runtime firing: an armed timer fires.
FairApproval ==
  SpecApproval /\ \A i \in 1..MaxRequests : WF_vars(Timeout(i))

\* ------------------------------------------------------------------ claims

HasMutating == \E i \in DOMAIN batch : batch[i].name \in writeTools

Executing == {i \in DOMAIN batch : toolState[i] = "exec"}

\* C1: in a batch that names a mutating tool (write_file, edit_file,
\* exec_command) the calls execute one after another in the requested order:
\* no two executions overlap, and a call starts only after every call
\* requested before it has finished.
C1_MutatingBatchSequential ==
  (pc = "tools" /\ HasMutating) =>
    /\ Cardinality(Executing) <= 1
    /\ \A i, j \in DOMAIN batch :
         (i < j /\ toolState[j] # "new") => toolState[i] \in {"ok", "err"}

\* C2: once /cancel has been handled on a running session, the loop stops at
\* the next head of the loop: no completion-service call is made after a loop
\* head passed with the cancellation asked.
C2_NoCompletionCallAfterCancel ==
  pc = "llm" => cancel # "passed"

\* C3: a run whose loop was left by the break of the consecutive-error check
\* (three iterations in a row with a failed tool call) returns success = false
\* with the output that tells the task is incomplete.
C3_ErrorCeilingGivesFailure ==
  (entry = "run" /\ outcome.kind = "returned" /\ outcome.via = "break") =>
    (~outcome.success /\ outcome.output = "incomplete")

\* C4: run and continue never raise an exception to their caller.
C4_NeverThrows ==
  outcome.kind # "thrown"

Occurrences(seq, x) == Cardinality({k \in DOMAIN seq : seq[k] = x})

\* C5: when the loop is about to call the completion service again, every call
\* of the assistant message it saved last has exactly one tool message, and no
\* other tool message was saved.
C5_OneToolMessagePerCall ==
  (pc = "llm" /\ requested # <<>>) =>
    /\ \A k \in DOMAIN requested : Occurrences(toolMsgs, requested[k]) = 1
    /\ Len(toolMsgs) = Len(requested)

\* C5 witness: a second completion call after a batch of two calls.
C5_Witness ==
  /\ pc = "llm"
  /\ Len(requested) = 2
  /\ Len(toolMsgs) = 2

\* The index of the last assistant message before position k, or 0.
LastAssistantBefore(s, k) ==
  IF \E a \in 1..(k - 1) : s[a].role = "assistant"
  THEN CHOOSE a \in 1..(k - 1) :
         /\ s[a].role = "assistant"
         /\ \A b \in (a + 1)..(k - 1) : s[b].role # "assistant"
  ELSE 0

SeqRange(seq) == {seq[k] : k \in DOMAIN seq}

\* C6: every tool message of the log references a tool-call id of the last
\* assistant message before it.
C6_ToolMessageAnswersPrecedingAssistant ==
  \A k \in DOMAIN messages :
    messages[k].role = "tool" =>
      LET a == LastAssistantBefore(messages, k)
      IN  /\ a # 0
          /\ messages[k].toolCallId \in SeqRange(messages[a].toolCalls)

\* C7: a log that begins with a system message begins with that same message
\* after every step of the engine, trims included.
C7_LeadingSystemMessageKept ==
  [][(messages # <<>> /\ messages[1].role = "system")
       => (messages' # <<>> /\ messages'[1] = messages[1])]_vars

NothingInFlight == \A c \in Callers : sWrite[c].phase = "none"

\* C8: once every addMessage, updateStatus and addTokenUsage begun has
\* returned, the session's file holds the in-memory session; and a restarted
\* process holds the state of the last mutation that returned, or that state
\* with the one mutation that was in flight.
C8_DurableRecordEqualsMemory ==
  /\ (sUp /\ NothingInFlight) => Load(sDisk) = sMem
  /\ ~sUp =>
       \/ sMem = sLast
       \/ \E c \in Callers :
            sWrite[c].phase # "none" /\ sMem = Load(sWrite[c].snap)

\* C9: a command that matches the block list is answered allowed = false with
\* the block-list reason under every sandbox policy (the block list comes
\* before the policy gate), and exec_command does not spawn it.
C9_BlockedCommandNeverAllowed ==
  MatchesBlocked(command) =>
    /\ validation # NoValidation =>
         (~validation.allowed /\ validation.reason = "blocked")
    /\ ~execResult.spawned

\* C9 witness: a block-listed command validated and handed to exec_command
\* under full-access.
C9_Witness ==
  /\ MatchesBlocked(command)
  /\ cmdPolicy = "full-access"
  /\ validation # NoValidation
  /\ execResult # NoExec

\* The resolved path is not the root directory nor below it.
Escapes(resolved, root) ==
  ~(Len(resolved) >= Len(root) /\ SubSeq(resolved, 1, Len(root)) = root)

\* C10: a path that resolves outside the workspace root is answered
\* allowed = false with the path-traversal reason under every policy other
\* than full-access.
C10_EscapingPathDenied ==
  ( /\ pathResult # NoPathResult
    /\ pathPolicy # "full-access"
    /\ Escapes(Resolve(workingDirectory, filePath), workingDirectory.segs) )
  => (~pathResult.allowed /\ pathResult.reason = "traversal")

\* C11: validatePath answers allowed = true only when the resolved path is
\* inside the workspace root (or the policy is full-access) and matches no
\* sensitive-file pattern; a path that matches a sensitive-file pattern is
\* denied under every policy and no read_file, write_file or edit_file call
\* touches it.
C11_AllowedOnlyIfContainedAndNotSensitive ==
  LET resolved == Resolve(workingDirectory, filePath)
      sensitive == MatchesSensitive(PathString(resolved))
  IN  /\ (pathResult # NoPathResult /\ pathResult.allowed) =>
           /\ ~Escapes(resolved, workingDirectory.segs)
                \/ pathPolicy = "full-access"
           /\ ~sensitive
      /\ sensitive =>
           /\ pathResult # NoPathResult => ~pathResult.allowed
           /\ touched # "touched"

\* C12: a tool call whose risk needs approval under the active approval
\* policy has its side effect only when an approval request was created for
\* it and approved.
C12_RiskyCallWaitsForApproval ==
  (dispatched # NoCall /\ needsApproval(apPolicy, dispatched.risk)
     /\ dispatched.effect) =>
    \E i \in DOMAIN reqs :
      /\ reqs[i].action = dispatched.action
      /\ reqs[i].details = dispatched.details
      /\ reqs[i].status = "approved"

\* C15: at most one loop executes on the session at any time.
C15_OneLoopPerSession ==
  Cardinality({h \in Callers : hpc[h] \in {"top", "llm"}}) <= 1

\* C16: the status is running while a loop executes on the session and idle
\* whenever none does, however run or continue ended.
C16_StatusFollowsLoop ==
  /\ pc # "idle" => status = "running"
  /\ (pc = "idle" /\ outcome.via \in {"answer", "break", "ceiling", "llm"})
       => status = "idle"

\* The step in which the completion call of a run fails.
CompletionFailsInRun ==
  /\ pc = "llm"
  /\ entry = "run"
  /\ outcome'.via = "llm"

\* s is the beginning of t.
IsPrefix(s, t) == Len(s) <= Len(t) /\ SubSeq(t, 1, Len(s)) = s

\* C17: when the completion call of a run fails, the log keeps every message
\* it had, the session is idle, and run returns success = false (it returns
\* whenever no listener of the error event throws on top of the failure); a
\* later run or continue is accepted and appends to that log.
C17_CompletionFailureKeepsLog ==
  /\ [][CompletionFailsInRun =>
          /\ messages' = messages
          /\ status' = "idle"
          /\ pc' = "idle"
          /\ threadExists'
          /\ ~outcome'.listener =>
               outcome' = Returned(FALSE, "error", "llm")]_vars
  /\ [][(FailedRun /\ pc' # "idle") =>
          /\ status' = "running"
          /\ messages'[Len(messages')].role = "user"
          /\ Len(messages) < maxHistoryMessages =>
               IsPrefix(messages, messages')]_vars

\* C17 witness: a second run, made on the log that a failed run left, has
\* itself been ended by a failure of the completion service and returned
\* success = false.
C17_Witness ==
  /\ runs = 2
  /\ pc = "idle"
  /\ status = "idle"
  /\ outcome = Returned(FALSE, "error", "llm")
  /\ Len(messages) >= 3

\* C13: the status of a request only moves from pending to approved or to
\* rejected and never changes afterwards; and a request whose wait has ended,
\* by a decision or by its 60 seconds, is not pending: the 60 seconds reject
\* it with the timeout reason.
C13_StatusLeavesPendingOnce ==
  /\ [](\A i \in DOMAIN reqs :
          (reqs[i].wait # "none" /\ ~reqs[i].timer) =>
            /\ reqs[i].status # "pending"
            /\ reqs[i].result = "timeout" => reqs[i].status = "rejected")
  /\ [][\A i \in DOMAIN reqs :
          reqs[i].status # "pending" => reqs'[i].status = reqs[i].status]_vars

\* C14: a call of requestApproval is resolved once, with the decision taken
\* for its own request (or with its own timeout or auto-approval).
C14_ResolvedOnceWithOwnDecision ==
  \A i \in DOMAIN reqs :
    /\ reqs[i].resolves <= 1
    /\ reqs[i].wait = "resolved" => reqs[i].decidedFor = i

\* Every call of requestApproval resolves.
ApprovalAlwaysResolves ==
  \A i \in 1..MaxRequests :
    (i \in DOMAIN reqs /\ reqs[i].wait = "waiting")
      ~> (i \in DOMAIN reqs /\ reqs[i].wait = "resolved")

\* C18: a run or a continue makes at most 15 completion calls: the call is
\* made in iterations 1..15 only and after the 15th iteration the loop is left.
\* When all 15 iterations had tool calls, the call returns success = false
\* with the last text of the model, or the incompleteness message when there
\* was none, and does not throw (no listener of the ending's events throwing).
C18_IterationCeiling ==
  /\ [][(pc # "llm" /\ pc' = "llm") =>
           (pc = "top" /\ iteration' = iteration + 1
            /\ iteration' \in 1..MAX_ITERATIONS)]_vars
  /\ [][(pc = "top" /\ iteration = MAX_ITERATIONS) => pc' = "ceiling"]_vars
  /\ [][(pc = "ceiling") =>
          /\ pc' = "idle"
          /\ status' = "idle"
          /\ ~outcome'.listener =>
               outcome' = Returned(FALSE,
                                   IF lastOutput # "" THEN lastOutput
                                   ELSE "incomplete",
                                   "ceiling")]_vars

C18_Witness ==
  /\ pc = "idle"
  /\ outcome = Returned(FALSE, "text", "ceiling")
  /\ Len(messages) > 0

\* The step in which a completion response without tool calls ends the loop
\* (engine.ts 249-260), no listener of the ending's events throwing.
FinalAnswerStep ==
  /\ pc = "llm"
  /\ pc' = "idle"
  /\ outcome'.via = "answer"
  /\ ~outcome'.listener

\* C19: a completion response without tool calls stops the loop in its
\* iteration: no tool is executed, no further completion call is made, and
\* the call returns success = true with the text of that response as output.
\* The text of the response is the content of the assistant message the step
\* saves; it is empty when the step saves none (engine.ts 237-246).
C19_FinalAnswerIsResponseText ==
  [][FinalAnswerStep =>
       /\ batch' = <<>> /\ toolState' = <<>>
       /\ outcome'.kind = "returned"
       /\ outcome'.success
       /\ outcome'.output =
            IF messages' # messages
            THEN messages'[Len(messages')].content
            ELSE ""]_vars

\* C20: a tool failure does not end a run by itself. The step that takes the
\* results of a batch goes back to the head of the loop, with the
\* consecutive-error count one higher when a call failed and zero when every
\* call succeeded; the head of the loop makes the next completion call unless
\* 15 iterations are done or the count has reached three; and the loop is left
\* only by a response without tool calls, by one of these two ceilings, or by
\* a failure of the completion service or of a listener.
C20_ToolFailureDoesNotEndRun ==
  /\ [][(pc = "tools" /\ pc' # "tools") =>
          \/ /\ pc' = "top"
             /\ \A i \in DOMAIN batch : toolState[i] \in {"ok", "err"}
             /\ consecutiveErrors' =
                  IF \E i \in DOMAIN batch : toolState[i] = "err"
                  THEN consecutiveErrors + 1 ELSE 0
          \/ /\ pc' = "idle"
             /\ outcome'.via = "threw"]_vars
  /\ [][(pc = "top" /\ pc' # "top") =>
          /\ (iteration < MAX_ITERATIONS
                /\ consecutiveErrors < MAX_CONSECUTIVE_ERRORS) => pc' = "llm"
          /\ pc' = "break" =>
               consecutiveErrors >= MAX_CONSECUTIVE_ERRORS
          /\ pc' = "ceiling" => iteration = MAX_ITERATIONS
          /\ pc' \in {"llm", "break", "ceiling"}]_vars
  /\ [][(pc # "idle" /\ pc' = "idle") =>
          outcome'.via \in {"answer", "break", "ceiling", "llm", "threw"}]_vars

C20_Witness ==
  /\ pc = "llm"
  /\ consecutiveErrors = 2
  /\ \E k \in DOMAIN messages :
       messages[k].role = "tool" /\ messages[k].content = "error"

\* The position of the id x in the sequence of ids seq, or 0.
PositionOf(seq, x) ==
  IF \E k \in DOMAIN seq : seq[k] = x
  THEN CHOOSE k \in DOMAIN seq : seq[k] = x
  ELSE 0

\* C21: once the results of an iteration are saved, the tool messages were
\* appended in the order in which the response requested the calls, and the
\* tool messages of the iteration that are in the log stand in that order,
\* whatever the order in which the tasks of the calls ended.
C21_ToolMessagesInRequestOrder ==
  (pc \in {"top", "llm", "break", "ceiling"} /\ requested # <<>>) =>
    /\ toolMsgs = requested
    /\ \A j, k \in DOMAIN messages :
         (/\ j < k
          /\ messages[j].role = "tool" /\ messages[k].role = "tool"
          /\ PositionOf(requested, messages[j].toolCallId) > 0
          /\ PositionOf(requested, messages[k].toolCallId) > 0)
           => PositionOf(requested, messages[j].toolCallId)
                < PositionOf(requested, messages[k].toolCallId)

\* C21 witness: the second call of a batch ended before the first and both
\* results are saved.
C21_Witness ==
  /\ pc = "llm"
  /\ completed = <<2, 1>>
  /\ Len(requested) = 2
  /\ toolMsgs = requested
  /\ messages[Len(messages)].role = "tool"
  /\ messages[Len(messages)].toolCallId = requested[2]

\* The messages of the log s2 after the first n.
Added(s2, n) == SubSeq(s2, n + 1, Len(s2))

\* C22: in an iteration whose response requests tool calls the log grows by
\* one assistant message carrying the calls, then by one tool message per call
\* and one system hint per failed call, and by nothing else. Stated for the
\* logs short enough for nothing to be trimmed.
C22_IterationGrowsLogByItsMessages ==
  /\ [][(pc = "llm" /\ pc' = "tools"
          /\ Len(messages) + 2 <= maxHistoryMessages) =>
          /\ IsPrefix(messages, messages')
          /\ Len(messages') = Len(messages) + 1
          /\ messages'[Len(messages')].role = "assistant"
          /\ messages'[Len(messages')].toolCalls = requested']_vars
  /\ [][(pc = "tools" /\ pc' = "top"
          /\ Len(messages) + 2 * Len(batch) <= maxHistoryMessages) =>
          LET new == Added(messages', Len(messages))
              tools == {k \in DOMAIN new : new[k].role = "tool"}
              hints == {k \in DOMAIN new : new[k].role = "system"}
          IN  /\ IsPrefix(messages, messages')
              /\ DOMAIN new = tools \cup hints
              /\ toolMsgs' = requested
              /\ Cardinality(tools) = Len(requested)
              /\ Cardinality(hints) =
                   Cardinality({k \in tools : new[k].content = "error"})
              /\ \A k \in hints :
                   k > 1 /\ k - 1 \in tools
                         /\ new[k - 1].content = "error"]_vars

\* C23: with a policy set on the registry, every tool of a schema set given
\* to the completion service, and every tool name put in the tool summary of
\* the system message, passes the matcher of the policy.
C23_ModelSeesOnlyPermittedTools ==
  [][toolPolicy.isSet =>
       /\ schemaSet' # schemaSet =>
            \A t \in schemaSet' : makeToolPolicyMatcher(toolPolicy, t)
       /\ toolSummary' # toolSummary =>
            \A t \in toolSummary' : makeToolPolicyMatcher(toolPolicy, t)]_vars

\* The errors execute gives for the handlers that throw.
HandlerErrors ==
  {ErrorText(b.error) : b \in {h \in HandlerBehaviours : h.does = "throws"}}

\* C24: ToolRegistry.execute never throws; for an unknown tool, for arguments
\* that cannot be parsed and for a handler that throws it returns a result
\* with success = false and the id of the call, whose error names the unknown
\* tool, tells the bad arguments from any error of a handler, or is the error
\* of the handler.
C24_ExecuteReturnsTaggedFailure ==
  /\ regResult.kind # "thrown"
  /\ regCall.cause # "none" =>
       /\ regResult.kind = "returned"
       /\ ~regResult.success
       /\ regResult.toolCallId = regCall.id
       /\ regCall.cause = "unknown tool" =>
            regResult.error = UnknownTool(regCall.name)
       /\ regCall.cause = "handler threw" =>
            regResult.error = ErrorText(regCall.thrown)
       /\ regCall.cause = "bad arguments" =>
            regResult.error \notin HandlerErrors

\* C25: when normalizeToolParameters flattens a union, the required list of
\* the result is the set of the fields that every branch requires, a branch
\* without a required list requiring none, and the properties of the result
\* are the union of the properties of the branches.
C25_RequiredIsIntersection ==
  normalizedSchema.flattened =>
    /\ normalizedSchema.required =
         {f \in Fields :
            \A i \in DOMAIN schema.variants :
              /\ schema.variants[i].hasRequired
              /\ f \in schema.variants[i].required}
    /\ normalizedSchema.properties =
         UNION {schema.variants[i].properties : i \in DOMAIN schema.variants}

\* A normalized name matches one pattern of a policy.
MatchesPattern(name, pattern) ==
  LET c == compilePattern(pattern)
  IN  \/ c.kind = "all"
      \/ c.kind = "exact" /\ name = c.value
      \/ c.kind = "glob" /\ GlobTest(c.value, name)

MatchesDeny ==
  \E k \in DOMAIN mPolicy.deny :
    MatchesPattern(normalizeToolName(mName), mPolicy.deny[k])

MatchesAllow ==
  \E k \in DOMAIN mPolicy.allow :
    MatchesPattern(normalizeToolName(mName), mPolicy.allow[k])

\* C26: the matcher rejects a name that matches a deny pattern, also when it
\* matches an allow pattern; without allow patterns it accepts every name that
\* matches no deny pattern; with allow patterns it accepts a name only if the
\* name matches one of them.
C26_DenyWinsAllowListOptional ==
  mAccepted # "none" =>
    /\ MatchesDeny => mAccepted = "no"
    /\ (mPolicy.allow = <<>> /\ ~MatchesDeny) => mAccepted = "yes"
    /\ (mPolicy.allow # <<>> /\ mAccepted = "yes") => MatchesAllow

\* C26 witness: a name that matches a deny pattern and an allow pattern.
C26_Witness ==
  /\ mAccepted = "no"
  /\ MatchesDeny
  /\ MatchesAllow
  /\ mPolicy.deny # mPolicy.allow

\* C27: for a command that is not on the block list, under a policy other
\* than read-only, validateCommand answers allowed with requiresApproval and
\* risk high when the command matches a dangerous pattern, and allowed without
\* requiresApproval at risk low for every other command.
C27_DangerousHighOthersLow ==
  (/\ validation # NoValidation
   /\ ~MatchesBlocked(command)
   /\ cmdPolicy # "read-only") =>
    IF MatchesDangerous(command)
    THEN validation = Validation(TRUE, "", TRUE, "high")
    ELSE validation = Validation(TRUE, "", FALSE, "low")

\* C28: under the sandbox policy read-only no tool call changes the workspace
\* or runs a command: write_file and edit_file do not touch their file,
\* exec_command spawns nothing, and a call of git or of git_enhanced changes
\* nothing; a git call with a write subcommand and every git_enhanced call
\* is answered with a failure for the reason of the policy.
C28_ReadOnlyChangesNothing ==
  /\ (pathPolicy = "read-only" /\ fileTool \in {"write_file", "edit_file"})
       => touched # "touched"
  /\ (cmdPolicy = "read-only" /\ execResult # NoExec)
       => (~execResult.spawned /\ execResult.error # "")
  /\ (gitPolicy = "read-only" /\ gitResult.done) =>
       /\ ~ChangesWorkspace(gitResult.ran)
       /\ (gitTool = "git_enhanced" \/ gitSub \in WRITE_SUBCOMMANDS) =>
            /\ ~gitResult.success
            /\ gitResult.ran = <<>>
            /\ gitResult.error \in {"requires write access",
                                     "not allowed in current sandbox policy"}

\* C29: in every outcome of run the toolCalls of the result are the calls
\* executed in the run, tokensUsed is the sum of the usage its completion
\* calls reported, and modifiedFiles is the set of the paths of its successful
\* write_file and edit_file calls.
C29_ResultRecordsTheRun ==
  rResult.returned =>
    /\ rResult.toolCalls = allToolCalls
    /\ rResult.tokensUsed = totalTokens
    /\ rResult.modifiedFiles = Distinct(modifiedFiles)

IsSystemPrompt(m) == m.role = "system" /\ m.content = "prompt"

OnePromptFirst(log) ==
  /\ log # <<>>
  /\ IsSystemPrompt(log[1])
  /\ \A i \in 2..Len(log) : ~IsSystemPrompt(log[i])

\* C30: on a session that run started, the log holds exactly one system
\* prompt and it is the first message of the log, whatever run and continue
\* calls, tool failures and trims follow: the first messages put in the log
\* by run leave it so, and no later step changes it.
C30_OneSystemPromptFirst ==
  [][/\ (messages = <<>> /\ messages' # <<>> /\ entry' = "run")
          => OnePromptFirst(messages')
     /\ OnePromptFirst(messages) => OnePromptFirst(messages')]_vars

\* C31: every entry of the session into Running, by run and by continue
\* alike, emits turn.started, and every exit back to Idle emits exactly one of
\* turn.completed and error.
C31_EveryTurnEmitsItsEvents ==
  [][/\ (pc = "idle" /\ pc' # "idle") => emitted'.started = 1
     /\ (pc # "idle" /\ pc' = "idle")
          => emitted'.completed + emitted'.error = 1]_vars

\* The step in which caller c's reset changes the Thread object.
ResetStep(c) ==
  /\ sWrite[c].phase = "none"
  /\ sWrite'[c].phase = "queued"
  /\ sWrite'[c].op = "reset"

\* C32: reset empties the message log, sets the token counter to zero and
\* the status to idle and leaves id, chat id, user id and working directory
\* as they were; and no operation but delete takes the session away:
\* addMessage (its trim included), updateStatus, addTokenUsage and reset, of
\* which run and continue are made, leave a session in the map.
C32_ResetKeepsIdentityOnlyDeleteRemoves ==
  [][/\ \A c \in Callers :
          ResetStep(c) =>
            /\ sMem'.msgs = 0
            /\ sMem'.tokens = 0
            /\ sMem'.status = "idle"
            /\ sMem'.kind = "thread"
            /\ sMem'.identity = sMem.identity
     /\ (sUp' /\ sMem.kind = "thread" /\ sMem'.kind # "thread")
          => (sOps' = sOps + 1 /\ UNCHANGED sWrite)]_vars

C32_Witness ==
  /\ sUp
  /\ sMem = NewThread
  /\ sLast.msgs > 0
  /\ sLast.tokens > 0
  /\ \E c \in Callers : sWrite[c].op = "reset" /\ sWrite[c].phase = "queued"

\* The sessions the step's call is about: the id of the call of a caller
\* whose call moved, and the stored session a getOrCreate puts in the map.
Touched ==
  LET moved == {c \in Callers : job'[c] # job[c]}
  IN  {job[c].id : c \in moved} \cup {job'[c].id : c \in moved}
        \cup UNION {Stored(job[c].chat) :
                      c \in {d \in moved : job[d].phase = "disk"}}

\* C33: an operation on one session (getOrCreate, addMessage, updateStatus,
\* addTokenUsage, reset, of which run and continue are made) never changes
\* the Thread object or the file of a different session, under any
\* interleaving of the calls of two callers.
C33_SessionsIndependent ==
  [][boots' = boots =>
       \A i \in SessionIds :
         (threads'[i] # threads[i] \/ sessionFiles'[i] # sessionFiles[i])
           => i \in Touched]_vars

C33_Witness ==
  \E c, d \in Callers :
    /\ job[c].phase = "queued" /\ job[d].phase = "queued"
    /\ job[c].op = "addMessage" /\ job[d].op = "reset"
    /\ job[c].id # job[d].id
    /\ Load(sessionFiles[job[c].id]).kind = "thread"
    /\ Load(sessionFiles[job[d].id]).kind = "thread"

\* C36: for each chat id at most one session exists: the getOrCreate calls
\* for one chat id, in sequence, together or on both sides of a restart,
\* leave one Thread in the map and one file for the chat.
C36_OneSessionPerChat ==
  \A chat \in Chats :
    /\ Cardinality(Cached(chat) \cup Stored(chat)) <= 1
    /\ Cardinality(Stored(chat)) <= 1

\* C34: needsApproval answers false for every risk tier under policy never,
\* true for every tier under always, and under on-request true exactly for
\* medium and high.
C34_NeedsApprovalByPolicy ==
  \A i \in 1..MaxRequests :
    needed[i].asked =>
      /\ apPolicy = "never" => ~needed[i].answer
      /\ apPolicy = "always" => needed[i].answer
      /\ apPolicy = "on-request" =>
           (needed[i].answer <=> reqs[i].risk \in {"medium", "high"})

C34_Witness ==
  /\ apPolicy = "on-request"
  /\ \E i, j \in DOMAIN reqs :
       /\ needed[i].asked /\ reqs[i].risk = "medium" /\ needed[i].answer
       /\ needed[j].asked /\ reqs[j].risk = "low" /\ ~needed[j].answer

\* C35: an execution of exec_command ends with a tool result no later than
\* its timeout: thirty seconds when the call gives none, else the value of
\* the call up to a fixed hard cap, a cap that is not below the default and
\* is below the largest value a call gives; and the result of a call whose
\* timeout passed is a failure.
C35_EndsWithinCappedTimeout ==
  \E cap \in DefaultTimeout..(MaxTimeout - 1) :
    LET limit == IF procTimeout = 0 THEN DefaultTimeout
                 ELSE IF procTimeout < cap THEN procTimeout ELSE cap
    IN  /\ procState = "running" => procClock <= limit
        /\ procState = "ended" =>
             /\ procClock <= limit
             /\ procResult.ended
             /\ procResult.error = "timed out" => ~procResult.success

\* The policy permits the name on its own; an undefined policy permits all.
Permits(policy, name) == ~policy.isSet \/ makeToolPolicyMatcher(policy, name)

\* C37: a tool name is permitted by the policy mergePolicies returned only
\* if every policy given to it permits the name on its own.
C37_MergedPermitsOnlyWhatAllPermit ==
  mgAccepted = "yes" =>
    \A k \in DOMAIN mgPolicies : Permits(mgPolicies[k], mgName)

\* C38: a successful write_file call, in any mode, and a successful
\* edit_file call that change the content of an existing file have written a
\* backup of the file before; and when the backup cannot be written the file
\* is left as it was and the call returns a failure.
C38_BackupBeforeEveryChange ==
  /\ (bkResult = "yes" /\ bkFile.exists /\ bkFile.changed) => bkBackup
  /\ (bkPc = "done" /\ bkCall.tool # "none" /\ bkFile.exists /\ ~bkBackup)
       => ~bkFile.changed

\* C39: getPending returns exactly the requests whose status is pending: a
\* request that was auto-approved, approved, rejected or has timed out is not
\* returned any more.
C39_PendingHoldsNoResolvedRequest ==
  \A i \in getPending : reqs[i].status = "pending"

\* C40: once the CustomWebSocketManager is stopped, by stop(), by a close
\* that tells an authentication failure or by a connect() that threw, no
\* socket is opened any more, not even by a reconnect timer armed before; and
\* every other close arms exactly one reconnect timer.
C40_NoAttemptOnceStopped ==
  [][/\ opened' # opened => ~stopped'
     /\ sockets' < sockets =>
          timers' = IF lastClose' = "other" /\ ~stopped
                    THEN timers + 1 ELSE timers]_vars

C40_Witness ==
  /\ stopped
  /\ lastTimer = "skipped"
  /\ lastClose = "other"
  /\ timers = 0
  /\ opened > 0

====
